---- MODULE Spec2Model ----
(***************************************************************************)
(* Terminal-session orchestrator of agor (TerminalsService and helpers):   *)
(* the output batcher, the Zellij session cache, and create / patch /      *)
(* remove / cleanup, modelled from                                         *)
(* src/apps/agor-cli/src/commands/config/set.ts.                           *)
(***************************************************************************)
EXTENDS Integers, Sequences, FiniteSets, TLC

\* ------------------------------------------------------------------------
\* Program constants (set.ts:104-129)
\* ------------------------------------------------------------------------
ZELLIJ_COMMAND_TIMEOUT_MS == 5000
DATA_BATCH_INTERVAL_MS == 10
TAB_CACHE_TTL_MS == 5000
READY_TIMEOUT_MS == 3000
MAX_BUFFER_SIZE == 1024 * 1024

\* ------------------------------------------------------------------------
\* Bounds of the model
\* ------------------------------------------------------------------------
\* pushes made on the stand-alone batcher
MaxPush == 3
\* clock steps taken by the stand-alone batcher
MaxTicks == 5

\* this.timer = null; handles of pending timeouts are 1, 2, ...
NoTimer == 0

\* create calls (each is one invocation of TerminalsService.create)
MaxCalls == 2
\* clock steps taken while creates run
MaxSteps == 1
\* external commands and spawns that fail or time out in one run
MaxFaults == 1
\* chunks one PTY delivers in one run
MaxData == 2
\* how many readiness timeouts long the clock runs while a create waits
MaxWait == 2
\* patch calls that reach one terminal in one run
MaxPatch == 1
\* length of the strings escaped
MaxLen == 3

VARIABLES
  now,        \* Date.now() in ms
  bat,        \* a TerminalDataBatcher: [buffer, timer]
  batPushed,  \* every chunk handed to bat.push, in call order
  batEmits,   \* every onFlush call of bat: [data, at, by]
  batOps,     \* how the batcher has been driven so far (history)
  config,     \* loadConfig().execution: [mode, executor]
  mux,        \* the Zellij sessions of every OS user: [exists, tabs, focus]
  existsCache,\* ZellijSessionCache.existsCache
  tabsCache,  \* ZellijSessionCache.tabsCache
  sessions,   \* TerminalsService.sessions: terminal ids in insertion order
  term,       \* the TerminalSession record and PTY of every terminal id
  call,       \* the local state of every create call
  hist,       \* history of the run
  work,       \* the pure functions: the input drawn and the results computed
  stop        \* a handleStopWithAck call, its listeners, timers and records

batVars == <<bat, batPushed, batEmits, batOps>>
svcVars == <<config, mux, existsCache, tabsCache, sessions, term, call, hist>>

vars == <<now, bat, batPushed, batEmits, batOps,
          config, mux, existsCache, tabsCache, sessions, term, call, hist, work,
          stop>>

\* ------------------------------------------------------------------------
\* TerminalDataBatcher (set.ts:409-465).  A string is the sequence of the
\* non-empty chunks it was concatenated from; a chunk is [id, len].
\* ------------------------------------------------------------------------
RECURSIVE StrLen(_)
StrLen(s) == IF s = <<>> THEN 0 ELSE Head(s).len + StrLen(Tail(s))

\* s + data
Concat(s, data) == IF data.len = 0 THEN s ELSE Append(s, data)

\* A batcher with the timeouts it has pending in the runtime:
\*   buffer   this.buffer
\*   timer    this.timer (NoTimer or the handle setTimeout returned)
\*   timeouts the setTimeout callbacks still pending: [id, due]
\*   armed    how many timeouts this batcher has armed so far
NewBatcher == [buffer |-> <<>>, timer |-> NoTimer, timeouts |-> {}, armed |-> 0]

\* clearTimeout(handle): a fired or unknown handle is ignored
ClearTimeout(timeouts, handle) == {x \in timeouts : x.id # handle}

\* flush() that forgets this.buffer = ''
BatcherFlush_KeepBuffer(b) ==
  [b   |-> [b EXCEPT !.timer = NoTimer,
                     !.timeouts = ClearTimeout(b.timeouts, b.timer)],
   out |-> IF StrLen(b.buffer) > 0 THEN <<b.buffer>> ELSE <<>>]

\* flush() without the buffer.length > 0 test
BatcherFlush_EmitEmpty(b) ==
  [b   |-> [b EXCEPT !.buffer = <<>>, !.timer = NoTimer,
                     !.timeouts = ClearTimeout(b.timeouts, b.timer)],
   out |-> <<b.buffer>>]

\* flush(): clear the timer, hand a non-empty buffer to onFlush.
\* Result: the batcher afterwards and the onFlush calls made (0 or 1).
BatcherFlush(b) ==
  [b   |-> [b EXCEPT !.buffer = <<>>, !.timer = NoTimer,
                     !.timeouts = ClearTimeout(b.timeouts, b.timer)],
   out |-> IF StrLen(b.buffer) > 0 THEN <<b.buffer>> ELSE <<>>]

\* push that arms a timeout without looking at this.timer
ArmTimer_Always(b, t) ==
  [b EXCEPT !.timer = b.armed + 1,
            !.timeouts = @ \cup {[id |-> b.armed + 1, due |-> t + DATA_BATCH_INTERVAL_MS]},
            !.armed = @ + 1]

\* setTimeout(() => this.flush(), DATA_BATCH_INTERVAL_MS) at time t, when
\* no timer is running
ArmTimer(b, t) ==
  IF b.timer # NoTimer THEN b
  ELSE [b EXCEPT !.timer = b.armed + 1,
                 !.timeouts = @ \cup {[id |-> b.armed + 1, due |-> t + DATA_BATCH_INTERVAL_MS]},
                 !.armed = @ + 1]

\* push that force-flushes only above the ceiling (> for >=)
BatcherPush_Above(b, data, t) ==
  LET full == [b EXCEPT !.buffer = Concat(b.buffer, data)] IN
  IF StrLen(full.buffer) > MAX_BUFFER_SIZE
    THEN BatcherFlush(full)
    ELSE [b |-> ArmTimer(full, t), out |-> <<>>]

\* push(data) at time t
BatcherPush(b, data, t) ==
  LET full == [b EXCEPT !.buffer = Concat(b.buffer, data)] IN
  IF StrLen(full.buffer) >= MAX_BUFFER_SIZE
    THEN BatcherFlush(full)
    ELSE [b |-> ArmTimer(full, t), out |-> <<>>]

\* destroy() that sets this.timer = null without clearTimeout
BatcherDestroy_KeepTimeout(b) == [b EXCEPT !.buffer = <<>>, !.timer = NoTimer]

\* destroy(): clear the timer, drop the buffer, emit nothing
BatcherDestroy(b) ==
  [b EXCEPT !.buffer = <<>>, !.timer = NoTimer,
            !.timeouts = ClearTimeout(b.timeouts, b.timer)]

\* the timeouts whose delay has elapsed at time t
DueTimeouts(b, t) == {x \in b.timeouts : t >= x.due}

\* the timer callback of timeout x runs: () => this.flush()
BatcherTimeout(b, x) == BatcherFlush([b EXCEPT !.timeouts = @ \ {x}])

\* ------------------------------------------------------------------------
\* Users, identities and names
\* ------------------------------------------------------------------------
\* undefined / null / '' of an optional string (all falsy in the code)
None == ""
\* undefined user id; a user id is <<first 8 characters, rest>>
NoUser == <<>>
Alice == <<"01aaaaaa", "a1">>
Bob == <<"01bbbbbb", "b1">>
UserIds == {Alice, Bob}

\* usersRepo.findById(id)?.unix_username: Alice is mapped, Bob is not
UnixUsername(u) == IF u = Alice THEN "alice" ELSE None

\* formatShortId(id): the first 8 characters
FormatShortId(u) == u[1]

\* the OS identities commands can run as; None is the daemon's own
OsUsers == {None, "alice", "agor_executor"}

Modes == {"simple", "impersonate_if_mapped", "always_with_fallback"}

\* resolveUnixUserForImpersonation({mode, userUnixUsername, executorUnixUser}).unixUser
ResolveUnixUser(mode, userUnixUsername, executorUnixUser) ==
  CASE mode = "simple" -> None
    [] mode = "impersonate_if_mapped" -> userUnixUsername
    [] OTHER -> IF userUnixUsername # None THEN userUnixUsername ELSE executorUnixUser

\* the identity a create resolves for an authenticated user under a config
FinalUnixUser(cfg, auth) ==
  ResolveUnixUser(cfg.mode, IF auth # NoUser THEN UnixUsername(auth) ELSE None, cfg.executor)

\* validateResolvedUnixUser(mode, unixUser) does not throw
ResolvedUserValid(mode, unixUser) ==
  /\ mode = "always_with_fallback" => unixUser # None
  /\ unixUser \in OsUsers

\* worktreeRepo.findById(id)?.name; no worktree id or an unknown one gives None
Worktrees == {"A", "B"}

\* const userSessionSuffix / const zellijSession = `agor-${userSessionSuffix}`
ZellijSessionName(resolvedUserId) ==
  <<"agor", IF resolvedUserId = NoUser THEN "shared" ELSE FormatShortId(resolvedUserId)>>

SessionNames == {ZellijSessionName(u) : u \in UserIds \cup {NoUser}}

\* const tabName = worktreeName || 'terminal'
TabNameOf(worktreeName) == IF worktreeName = None THEN "terminal" ELSE worktreeName

\* ZellijSessionCache.getCacheKey: `${sessionName}:${asUser || 'daemon'}`
GetCacheKey(sessionName, asUser) ==
  <<sessionName, IF asUser = None THEN "daemon" ELSE asUser>>

CacheKeys == {GetCacheKey(sn, u) : sn \in SessionNames, u \in OsUsers}

\* a Zellij session lives in the namespace of the OS user that runs zellij
MuxKey(sessionName, asUser) == <<asUser, sessionName>>
MuxKeys == {MuxKey(sn, u) : sn \in SessionNames, u \in OsUsers}

\* ------------------------------------------------------------------------
\* The multiplexer as the code drives it (zellij attach --create and
\* zellij --session S action ...): a session is [exists, tabs, focus]
\* ------------------------------------------------------------------------
NoSession == [exists |-> FALSE, tabs |-> <<>>, focus |-> 0]

\* zellij attach S --create: a new session starts with one default tab
AttachOrCreate(s) ==
  IF s.exists THEN s ELSE [exists |-> TRUE, tabs |-> <<"Tab #1">>, focus |-> 1]

\* action rename-tab NAME: renames the focused tab
RenameTab(s, name) == [s EXCEPT !.tabs = [@ EXCEPT ![s.focus] = name]]

\* action new-tab --name NAME: appends a tab and focuses it
NewTab(s, name) == [s EXCEPT !.tabs = Append(@, name), !.focus = Len(s.tabs) + 1]

\* action go-to-tab-name NAME: focuses the first tab of that name, if any
GoToTabName(s, name) ==
  IF \E i \in 1..Len(s.tabs) : s.tabs[i] = name
    THEN [s EXCEPT !.focus = CHOOSE i \in 1..Len(s.tabs) :
                                /\ s.tabs[i] = name
                                /\ \A j \in 1..(i - 1) : s.tabs[j] # name]
    ELSE s

\* zellij list-sessions, then sessions.includes(sessionName)
ListSessionsIncludes(m, sessionName, asUser) == m[MuxKey(sessionName, asUser)].exists

\* action query-tab-names: fails when the session does not exist
QueryTabNames(m, sessionName, asUser) == m[MuxKey(sessionName, asUser)].tabs

\* existingTabs.includes(tabName)
Includes(tabs, name) == \E i \in 1..Len(tabs) : tabs[i] = name

\* how many tabs of a session carry a name
TabCount(tabs, name) == Cardinality({i \in 1..Len(tabs) : tabs[i] = name})

\* ------------------------------------------------------------------------
\* ZellijSessionCache (set.ts:281-363): a Map entry is [has, val, timestamp]
\* ------------------------------------------------------------------------
\* (observedAt is history: when the query that produced val ran)
NoExists == [has |-> FALSE, val |-> FALSE, timestamp |-> 0, observedAt |-> 0]
NoTabs == [has |-> FALSE, val |-> <<>>, timestamp |-> 0, observedAt |-> 0]

\* cached && now - cached.timestamp < TAB_CACHE_TTL_MS
\* a hit test that ignores the age of the entry
CacheHit_NoTtl(cached, t) == cached.has

CacheHit(cached, t) == cached.has /\ t - cached.timestamp < TAB_CACHE_TTL_MS

\* this.existsCache.set / this.tabsCache.set
CacheSet(cache, key, val, timestamp) ==
  [cache EXCEPT ![key] = [has |-> TRUE, val |-> val, timestamp |-> timestamp,
                          observedAt |-> 0]]

\* history: the entry of key holds what a query observed at time t
ObservedAt(cache, key, t) == [cache EXCEPT ![key].observedAt = t]

\* invalidate(): this.tabsCache.delete(key) / this.existsCache.delete(key)
CacheDelete(cache, key, empty) == [cache EXCEPT ![key] = empty]

\* ------------------------------------------------------------------------
\* TerminalsService state
\* ------------------------------------------------------------------------
Calls == 1..MaxCalls

\* a terminal id that was never registered
NoTerminal ==
  [batcher |-> NewBatcher, registered |-> FALSE, ptyAlive |-> FALSE,
   kills |-> 0, flushes |-> 0, destroyed |-> FALSE, exitEvents |-> 0,
   pushes |-> 0, dataEvents |-> 0, cols |-> 0, rows |-> 0,
   hooked |-> FALSE, emitted |-> FALSE, firstEmitAt |-> 0,
   removed |-> FALSE, written |-> <<>>, resized |-> <<>>, log |-> <<>>]

\* the last get / find / patch / remove(unknown) call and how it ended
NoOp == [op |-> "none", id |-> 0, result |-> "none", listed |-> {}]

\* a create call before it is made
NoCall ==
  [pc |-> "idle", auth |-> NoUser, userId |-> NoUser, worktree |-> None,
   asUser |-> None, zellijSession |-> <<>>, tabName |-> None,
   now |-> 0, obsExists |-> FALSE, obsTabs |-> <<>>, obsAt |-> 0, queries |-> 0,
   sessionExists |-> FALSE, needsTabCreation |-> FALSE, needsTabSwitch |-> FALSE,
   zellijReused |-> FALSE, envFile |-> FALSE, cwdIsHome |-> FALSE,
   script |-> <<>>, injected |-> <<>>,
   issued |-> <<>>, criticalFailed |-> FALSE, otherFailed |-> FALSE,
   mutated |-> FALSE, invalidated |-> FALSE, doneBefore |-> {}, error |-> None,
   resolved |-> FALSE, readyPending |-> FALSE, readyDue |-> 0,
   waitBegan |-> 0, waitEnded |-> 0]

\* what is left of a call once create has returned or thrown: its arguments,
\* the identity and names it resolved, its result and a summary of what it did
Finished(rec, pc, error) ==
  [NoCall EXCEPT !.pc = pc, !.error = error,
                 !.auth = rec.auth, !.userId = rec.userId, !.worktree = rec.worktree,
                 !.asUser = rec.asUser, !.zellijSession = rec.zellijSession,
                 !.tabName = rec.tabName, !.zellijReused = rec.zellijReused,
                 !.criticalFailed = rec.criticalFailed, !.otherFailed = rec.otherFailed,
                 !.mutated = rec.mutated, !.invalidated = rec.invalidated,
                 !.injected = rec.injected,
                 !.doneBefore = rec.doneBefore]

InFlight(c) == c.pc \notin {"idle", "done", "failed"}

\* ------------------------------------------------------------------------
\* The stand-alone batcher driven by push / timer / flush
\* ------------------------------------------------------------------------
\* lengths of the data pushed: empty, small, just under / at / over the ceiling
PushSizes == {0, 1, MAX_BUFFER_SIZE - 1, MAX_BUFFER_SIZE, MAX_BUFFER_SIZE + 1}

Emission(out, by) == [data |-> out, at |-> now, by |-> by]

Record(res, by) ==
  batEmits' = batEmits \o [i \in 1..Len(res.out) |-> Emission(res.out[i], by)]

\* the service stays as constructed while the batcher is driven alone
SvcFixed ==
  /\ config = [mode |-> "simple", executor |-> None]
  /\ mux = [k \in MuxKeys |-> NoSession]
  /\ existsCache = [k \in CacheKeys |-> NoExists]
  /\ tabsCache = [k \in CacheKeys |-> NoTabs]
  /\ sessions = <<>>
  /\ term = [id \in Calls |-> NoTerminal]
  /\ call = [c \in Calls |-> NoCall]
  /\ hist = [overlap |-> FALSE, faults |-> 0, readSince |-> {}, cleanups |-> {},
            last |-> NoOp, stale |-> {}, hang |-> FALSE]

\* no handleStopWithAck call yet: the task runs in its session
\*   sequence, ackReceived   the locals of lines 60-61
\*   attempt                 the loop counter of line 64
\*   sent                    the task_stop events emitted: [sequence, at]
\*   ackListener, ackDue     the 'task_stop_ack' listener and the pending
\*                           timeout of the current attempt (NoTimer: none)
\*   ackSettled              how ackPromise settled ("no": not yet)
\*   completeListener, completeDue, completeSettled   the same for phase 2
\*   taskStatus, sessionStatus, readyForPrompt        the patched records
\*   patched                 the patches of this call that succeeded
\*   timeouts                how many ACK waits of this call timed out
\*   lastAck                 the last ACK event delivered: its task and
\*                           sequence, the sequence current then, accepted or not
\*   acceptedAck             the ACK event that resolved an ackPromise with true
\*   result                  what the call returned
NoAck == [task |-> "none", sequence |-> 0, current |-> 0, accepted |-> FALSE]
NoStop ==
  [pc |-> "idle", sequence |-> 0, attempt |-> 0, ackReceived |-> FALSE,
   sent |-> <<>>,
   ackListener |-> FALSE, ackDue |-> NoTimer, ackSettled |-> "no",
   completeListener |-> FALSE, completeDue |-> NoTimer, completeSettled |-> "no",
   completed |-> FALSE,
   taskStatus |-> "running", sessionStatus |-> "running", readyForPrompt |-> TRUE,
   patched |-> {}, lastAck |-> NoAck, acceptedAck |-> NoAck, timeouts |-> 0,
   result |-> "none"]

\* no pure function under check
NoWork == [fn |-> "none", input |-> <<>>, output |-> <<>>, value |-> <<>>,
           expected |-> <<>>]

BatInit ==
  /\ work = NoWork
  /\ now = 0
  /\ bat = NewBatcher
  /\ stop = NoStop
  /\ batPushed = <<>>
  /\ batEmits = <<>>
  /\ batOps = {}
  /\ SvcFixed

BatPush ==
  /\ Len(batPushed) < MaxPush
  /\ \E n \in PushSizes :
       LET data == [id |-> Len(batPushed) + 1, len |-> n]
           res  == BatcherPush(bat, data, now)
       IN /\ bat' = res.b
          /\ batPushed' = Append(batPushed, data)
          /\ Record(res, "push")
          /\ batOps' = batOps \cup {"push"}
                         \cup (IF res.out # <<>> THEN {"force"} ELSE {})
  /\ UNCHANGED <<stop, work, now, svcVars>>

BatTimer ==
  /\ \E x \in DueTimeouts(bat, now) :
       LET res == BatcherTimeout(bat, x)
       IN /\ bat' = res.b
          /\ Record(res, "timer")
  /\ batOps' = batOps \cup {"timer"}
  /\ UNCHANGED <<stop, work, now, batPushed, svcVars>>

BatFlush ==
  /\ LET res == BatcherFlush(bat)
     IN /\ bat' = res.b
        /\ Record(res, "flush")
        /\ batOps' = batOps \cup {"flush"}
                       \cup (IF res.out = <<>> THEN {"empty"} ELSE {})
  /\ UNCHANGED <<stop, work, now, batPushed, svcVars>>

BatDestroy ==
  /\ "destroy" \notin batOps
  /\ bat' = BatcherDestroy(bat)
  /\ batOps' = batOps \cup {"destroy"}
  /\ UNCHANGED <<stop, work, now, batPushed, batEmits, svcVars>>

\* the clock advances in steps of half a batch interval
TickMs == DATA_BATCH_INTERVAL_MS \div 2

BatTick ==
  /\ now < MaxTicks * TickMs
  /\ now' = now + TickMs
  /\ UNCHANGED <<stop, work, batVars, svcVars>>

BatNext == BatPush \/ BatTimer \/ BatFlush \/ BatDestroy \/ BatTick


BatcherSpec == BatInit /\ [][BatNext]_vars

\* ------------------------------------------------------------------------
\* Claims about the batcher
\* ------------------------------------------------------------------------
RECURSIVE Flatten(_)
Flatten(ss) == IF ss = <<>> THEN <<>> ELSE Head(ss) \o Flatten(Tail(ss))

EmittedData == Flatten([i \in 1..Len(batEmits) |-> batEmits[i].data])
PushedData == SelectSeq(batPushed, LAMBDA c : c.len > 0)

\* the step is a call of push
IsPushStep == Len(batPushed') = Len(batPushed) + 1
LastPushed == batPushed'[Len(batPushed')]

\* C8: after every push returns the buffer is shorter than MAX_BUFFER_SIZE; a
\* push that brings the buffer to or over the ceiling emits the whole buffer
\* (what was buffered plus the data pushed) in that same call, whether or not
\* a timer was running, and leaves no timer set and no timeout pending.
C8_BelowCeiling == StrLen(bat.buffer) < MAX_BUFFER_SIZE
C8_ForceFlushStep ==
  (IsPushStep /\ StrLen(Concat(bat.buffer, LastPushed)) >= MAX_BUFFER_SIZE)
    => /\ batEmits' = Append(batEmits,
                        [data |-> Concat(bat.buffer, LastPushed), at |-> now, by |-> "push"])
       /\ bat'.buffer = <<>>
       /\ bat'.timer = NoTimer
       /\ bat'.timeouts = {}
C8_PushForceFlushes == []C8_BelowCeiling /\ [][C8_ForceFlushStep]_vars

\* a push reached the ceiling while earlier data was buffered under a timer
C8_Witness ==
  \E i \in 1..Len(batEmits) : batEmits[i].by = "push" /\ Len(batEmits[i].data) >= 2

\* C9: while no push has reached the ceiling and flush() has not been called
\* from outside, consecutive emissions are at least DATA_BATCH_INTERVAL_MS
\* apart; at most one timeout is pending at any time, it is the one this.timer
\* holds, and a push made while it is pending leaves it as it is.
C9_LowRate == "force" \notin batOps /\ "flush" \notin batOps
C9_Spaced ==
  /\ C9_LowRate =>
       \A i \in 1..Len(batEmits) - 1 :
          batEmits[i + 1].at - batEmits[i].at >= DATA_BATCH_INTERVAL_MS
  /\ Cardinality(bat.timeouts) <= 1
  /\ \A x \in bat.timeouts : x.id = bat.timer
C9_PushKeepsTimer ==
  (IsPushStep /\ bat.timer # NoTimer /\ batEmits' = batEmits)
    => (bat'.timer = bat.timer /\ bat'.timeouts = bat.timeouts)
C9_OneEmissionPerInterval == []C9_Spaced /\ [][C9_PushKeepsTimer]_vars

\* two timer emissions, the second fed by a push made while its timer ran
C9_Witness ==
  /\ C9_LowRate
  /\ Len(batEmits) >= 2
  /\ Len(batEmits[2].data) >= 2

\* C10: without destroy, what has been emitted followed by what is buffered
\* is exactly what was pushed, in push order; an emission empties the buffer;
\* buffered data always has its timeout pending.
C10_NothingLostOrRepeated ==
  "destroy" \notin batOps =>
    /\ EmittedData \o bat.buffer = PushedData
    /\ \A i \in 1..Len(batEmits) : batEmits[i].data # <<>>
    /\ bat.buffer # <<>> => \E x \in bat.timeouts : x.id = bat.timer

\* a timer emission and an explicit flush happened and data is buffered again
C10_Witness ==
  /\ "destroy" \notin batOps
  /\ {"timer", "flush"} \subseteq {batEmits[i].by : i \in 1..Len(batEmits)}
  /\ bat.buffer # <<>>

\* C11: flush() on an empty buffer emits nothing; flush() twice in a row
\* emits at most one chunk, the second call emits nothing and changes
\* nothing; no emitted chunk is empty; after a flush no timer is set and no
\* timeout is pending.
C11_FlushTwice ==
  LET first  == BatcherFlush(bat)
      second == BatcherFlush(first.b)
  IN /\ bat.buffer = <<>> => first.out = <<>>
     /\ \A i \in 1..Len(first.out) : StrLen(first.out[i]) > 0
     /\ Len(first.out) <= 1
     /\ second.out = <<>>
     /\ second.b = first.b
     /\ first.b.timer = NoTimer /\ first.b.timeouts = {}
C11_FlushStep ==
  BatFlush =>
    /\ bat'.timer = NoTimer /\ bat'.timeouts = {} /\ bat'.buffer = <<>>
    /\ bat.buffer = <<>> => batEmits' = batEmits
    /\ Len(batEmits') <= Len(batEmits) + 1
C11_FlushIdempotent == []C11_FlushTwice /\ [][C11_FlushStep]_vars

\* flush() has emitted a chunk and flush() has been called on an empty buffer
C11_Witness ==
  /\ "empty" \in batOps
  /\ \E i \in 1..Len(batEmits) : batEmits[i].by = "flush"

\* C12: destroy() from any state leaves no buffer, no timer and no pending
\* timeout, and calls onFlush for nothing: the emissions are as before, so
\* the timeout it cancelled can never emit.
C12_DestroyNow ==
  LET d == BatcherDestroy(bat)
  IN d.buffer = <<>> /\ d.timer = NoTimer /\ d.timeouts = {}
C12_DestroyStep ==
  BatDestroy =>
    /\ batEmits' = batEmits
    /\ bat'.buffer = <<>> /\ bat'.timer = NoTimer /\ bat'.timeouts = {}
C12_DestroyEmitsNothing == []C12_DestroyNow /\ [][C12_DestroyStep]_vars

\* destroy() dropped buffered data whose timeout was pending
C12_Witness ==
  /\ "destroy" \in batOps
  /\ bat.buffer = <<>> /\ bat.timeouts = {}
  /\ Len(EmittedData) < Len(PushedData)

\* ------------------------------------------------------------------------
\* TerminalsService.create (set.ts:560-920), one action per stretch of code
\* between two awaits that touch shared state
\* ------------------------------------------------------------------------
\* the inputs create calls are made with
AuthInputs == {Alice, Bob}
DataUserInputs == {NoUser}
WorktreeInputs == Worktrees \cup {None}
Configs ==
  {[mode |-> "always_with_fallback", executor |-> None]}
\* what the multiplexer may hold when the daemon starts (sessions survive
\* daemon restarts)
InitialSessions ==
  {NoSession,
   [exists |-> TRUE, tabs |-> <<"A">>, focus |-> 1],
   [exists |-> TRUE, tabs |-> <<"A", "B">>, focus |-> 2]}

Key(c) == GetCacheKey(call[c].zellijSession, call[c].asUser)
MKey(c) == MuxKey(call[c].zellijSession, call[c].asUser)

\* the outcomes an external command can still have; where the multiplexer
\* hangs, execAsync rejects every command after ZELLIJ_COMMAND_TIMEOUT_MS
\* (lines 219-222)
Outcomes ==
  IF hist.hang THEN {FALSE}
  ELSE IF hist.faults < MaxFaults THEN BOOLEAN ELSE {TRUE}

\* the outcomes pty.spawn can still have (line 744)
SpawnOutcomes == IF hist.hang THEN BOOLEAN ELSE Outcomes

\* an external command or a spawn ran: count the ones that failed
Ran(ok) == [hist EXCEPT !.faults = IF ok \/ hist.hang THEN @ ELSE @ + 1]

\* the verbs run with throwOnError = true (lines 869, 876-887, 897-902)
CriticalVerbs == {"rename-tab", "new-tab", "go-to-tab-name"}

\* runZellijActionAsync(session, verb ..., asUser, throwOnError) ran
Issue(c, verb, ok) ==
  [call[c] EXCEPT !.issued = Append(@, verb),
                  !.criticalFailed = @ \/ (~ok /\ verb \in CriticalVerbs),
                  !.otherFailed = @ \/ (~ok /\ verb \notin CriticalVerbs),
                  !.mutated = @ \/ (ok /\ verb \in {"rename-tab", "new-tab"})]

\* create returns (line 919): history of the getTabs calls made since a
\* create that changed the tabs of a key returned
Returned(c, h) ==
  [h EXCEPT !.readSince = IF call[c].mutated THEN @ \ {Key(c)} ELSE @]

\* a create that goes on although validateResolvedUnixUser threw
CreateBegin_NoValidation(c) ==
  /\ call[c].pc = "idle"
  /\ \A d \in 1..(c - 1) : call[d].pc # "idle"
  /\ \E auth \in AuthInputs, worktreeName \in WorktreeInputs :
       call' = [call EXCEPT ![c] =
                  [@ EXCEPT !.auth = auth, !.userId = auth, !.worktree = worktreeName,
                            !.doneBefore = {d \in Calls : call[d].pc = "done"},
                            !.pc = "exists",
                            !.asUser = FinalUnixUser(config, auth),
                            !.zellijSession = ZellijSessionName(auth),
                            !.tabName = TabNameOf(worktreeName),
                            !.cwdIsHome = (worktreeName = None)]]
  /\ hist' = [hist EXCEPT !.overlap = @ \/ \E d \in Calls : InFlight(call[d])]
  /\ UNCHANGED <<stop, work, now, batVars, config, mux, existsCache, tabsCache, sessions, term>>

\* lines 570-664 of create(data, params): ids, config, identity resolution
\* and validation, worktree, names; for an authenticated user `auth`,
\* data.userId `userId` and the worktree name `worktreeName`
CreateWith(c, auth, userId, worktreeName) ==
  LET resolvedUserId == IF userId # NoUser THEN userId ELSE auth
      \* let cwd = data.cwd || os.homedir(), data.cwd not given
      cwdIsHome == worktreeName = None
      finalUnixUser == FinalUnixUser(config, auth)
      base == [call[c] EXCEPT !.auth = auth, !.userId = resolvedUserId,
                              !.worktree = worktreeName,
                              !.doneBefore = {d \in Calls : call[d].pc = "done"}]
  IN IF ~ResolvedUserValid(config.mode, finalUnixUser)
       THEN call' = [call EXCEPT ![c] = Finished(base, "failed", "identity")]
       ELSE call' = [call EXCEPT ![c] =
                       [base EXCEPT !.pc = "exists",
                                    !.asUser = finalUnixUser,
                                    !.zellijSession = ZellijSessionName(resolvedUserId),
                                    !.tabName = TabNameOf(worktreeName),
                                    !.cwdIsHome = cwdIsHome]]

\* create is called
CreateBegin(c) ==
  /\ call[c].pc = "idle"
  /\ \A d \in 1..(c - 1) : call[d].pc # "idle"
  /\ \E auth \in AuthInputs, userId \in DataUserInputs,
        worktreeName \in WorktreeInputs :
       CreateWith(c, auth, userId, worktreeName)
  /\ hist' = [hist EXCEPT !.overlap = @ \/ \E d \in Calls : InFlight(call[d])]
  /\ UNCHANGED <<stop, work, now, batVars, config, mux, existsCache, tabsCache, sessions, term>>

\* a classification that reports reuse for every existing session
Classified_ReuseAlways(rec, sessionExists, existingTabs) ==
  LET tabExists == Includes(existingTabs, rec.tabName) IN
  [rec EXCEPT !.pc = "spawn",
              !.now = 0, !.obsExists = FALSE, !.obsTabs = <<>>, !.obsAt = 0, !.queries = 0,
              !.sessionExists = sessionExists,
              !.zellijReused = sessionExists,
              !.needsTabSwitch = sessionExists /\ tabExists,
              !.needsTabCreation = sessionExists /\ ~tabExists]

\* lines 672-683: classify once sessionExists (and the tab list) is known
Classified(rec, sessionExists, existingTabs) ==
  LET tabExists == Includes(existingTabs, rec.tabName) IN
  [rec EXCEPT !.pc = "spawn",
              !.now = 0, !.obsExists = FALSE, !.obsTabs = <<>>, !.obsAt = 0, !.queries = 0,
              !.sessionExists = sessionExists,
              !.zellijReused = sessionExists /\ tabExists,
              !.needsTabSwitch = sessionExists /\ tabExists,
              !.needsTabCreation = sessionExists /\ ~tabExists]

AfterExists(rec, sessionExists) ==
  IF sessionExists
    THEN [rec EXCEPT !.pc = "tabs", !.sessionExists = TRUE,
                     !.now = 0, !.obsExists = FALSE, !.obsAt = 0, !.queries = 0]
    ELSE Classified(rec, FALSE, <<>>)

\* zellijCache.sessionExists up to its await (lines 292-301)
ExistsStart(c) ==
  /\ call[c].pc = "exists"
  /\ LET cached == existsCache[Key(c)] IN
     IF CacheHit(cached, now)
       THEN call' = [call EXCEPT ![c] = AfterExists(@, cached.val)]
       ELSE call' = [call EXCEPT ![c] = [@ EXCEPT !.pc = "existsQuery", !.now = now]]
  /\ UNCHANGED <<stop, work, now, batVars, config, mux, existsCache, tabsCache, sessions, term, hist>>

\* zellijSessionExistsAsync that lets the error of a failed query out
ExistsQuery_Throws(c) ==
  /\ call[c].pc = "existsQuery"
  /\ \E ok \in Outcomes :
       /\ call' = [call EXCEPT ![c] =
            IF ok THEN [@ EXCEPT !.pc = "existsResult", !.queries = @ + 1, !.obsAt = now,
                                 !.obsExists = ListSessionsIncludes(mux, call[c].zellijSession, call[c].asUser)]
            ELSE Finished(@, "failed", "query")]
       /\ hist' = Ran(ok)
  /\ UNCHANGED <<stop, work, now, batVars, config, mux, existsCache, tabsCache, sessions, term>>

\* zellijSessionExistsAsync that runs the query again after a failure
ExistsQuery_Retry(c) ==
  /\ call[c].pc = "existsQuery"
  /\ \E ok \in Outcomes :
       /\ call' = [call EXCEPT ![c] =
            IF ok THEN [@ EXCEPT !.pc = "existsResult", !.queries = @ + 1, !.obsAt = now,
                                 !.obsExists = ListSessionsIncludes(mux, call[c].zellijSession, call[c].asUser)]
            ELSE @]
       /\ hist' = Ran(ok)
  /\ UNCHANGED <<stop, work, now, batVars, config, mux, existsCache, tabsCache, sessions, term>>

\* zellij list-sessions runs (lines 228-244); a failure or timeout gives false
ExistsQuery(c) ==
  /\ call[c].pc = "existsQuery"
  /\ \E ok \in Outcomes :
       /\ call' = [call EXCEPT ![c] =
            [@ EXCEPT !.pc = "existsResult", !.queries = @ + 1, !.obsAt = now,
                      !.obsExists = ok /\ ListSessionsIncludes(mux, call[c].zellijSession, call[c].asUser)]]
       /\ hist' = Ran(ok)
  /\ UNCHANGED <<stop, work, now, batVars, config, mux, existsCache, tabsCache, sessions, term>>

\* a sessionExists that stamps the entry with the time its query ended
ExistsResult_StampAfter(c) ==
  /\ call[c].pc = "existsResult"
  /\ existsCache' = ObservedAt(CacheSet(existsCache, Key(c), call[c].obsExists, now),
                              Key(c), call[c].obsAt)
  /\ call' = [call EXCEPT ![c] = AfterExists(@, @.obsExists)]
  /\ hist' = [hist EXCEPT !.stale = @ \ {c}]
  /\ UNCHANGED <<stop, work, now, batVars, config, mux, tabsCache, sessions, term>>

\* zellijCache.sessionExists after its await (lines 302-303)
ExistsResult(c) ==
  /\ call[c].pc = "existsResult"
  /\ existsCache' = ObservedAt(CacheSet(existsCache, Key(c), call[c].obsExists, call[c].now),
                              Key(c), call[c].obsAt)
  /\ call' = [call EXCEPT ![c] = AfterExists(@, @.obsExists)]
  /\ hist' = [hist EXCEPT !.stale = @ \ {c}]
  /\ UNCHANGED <<stop, work, now, batVars, config, mux, tabsCache, sessions, term>>

\* zellijCache.getTabs up to its await (lines 309-318)
TabsStart(c) ==
  /\ call[c].pc = "tabs"
  /\ LET cached == tabsCache[Key(c)] IN
     IF CacheHit(cached, now)
       THEN call' = [call EXCEPT ![c] = Classified(@, TRUE, cached.val)]
       ELSE call' = [call EXCEPT ![c] = [@ EXCEPT !.pc = "tabsQuery", !.now = now]]
  /\ hist' = [hist EXCEPT !.readSince = @ \cup {Key(c)}]
  /\ UNCHANGED <<stop, work, now, batVars, config, mux, existsCache, tabsCache, sessions, term>>

\* action query-tab-names runs (lines 335-362); a failure or timeout gives []
TabsQuery(c) ==
  /\ call[c].pc = "tabsQuery"
  /\ \E ok \in Outcomes :
       /\ call' = [call EXCEPT ![c] =
            [@ EXCEPT !.pc = "tabsResult", !.queries = @ + 1, !.obsAt = now,
                      !.obsTabs = IF ok THEN QueryTabNames(mux, call[c].zellijSession, call[c].asUser)
                                  ELSE <<>>]]
       /\ hist' = Ran(ok)
  /\ UNCHANGED <<stop, work, now, batVars, config, mux, existsCache, tabsCache, sessions, term>>

\* zellijCache.getTabs after its await (lines 319-320)
TabsResult(c) ==
  /\ call[c].pc = "tabsResult"
  /\ tabsCache' = ObservedAt(CacheSet(tabsCache, Key(c), call[c].obsTabs, call[c].now),
                            Key(c), call[c].obsAt)
  /\ call' = [call EXCEPT ![c] = Classified(@, TRUE, @.obsTabs)]
  /\ hist' = [hist EXCEPT !.stale = @ \ {c}]
  /\ UNCHANGED <<stop, work, now, batVars, config, mux, existsCache, sessions, term>>

\* lines 761-816: the batcher, the TerminalSession record, the PTY handlers
Registered(cols, rows) ==
  [NoTerminal EXCEPT !.registered = TRUE, !.ptyAlive = TRUE,
                     !.cols = cols, !.rows = rows]

\* a create that stores the TerminalSession before pty.spawn has succeeded
Spawn_RegisterFirst(c) ==
  /\ call[c].pc = "spawn"
  /\ \E wrote \in BOOLEAN, spawned \in Outcomes :
       LET rec == [call[c] EXCEPT !.envFile = (call[c].userId # NoUser) /\ wrote] IN
       /\ sessions' = Append(sessions, c)
       /\ term' = [term EXCEPT ![c] = [Registered(80, 30) EXCEPT !.ptyAlive = spawned]]
       /\ IF spawned
            THEN /\ mux' = [mux EXCEPT ![MKey(c)] = AttachOrCreate(@)]
                 /\ call' = [call EXCEPT ![c] = [rec EXCEPT !.pc = "ready"]]
            ELSE /\ call' = [call EXCEPT ![c] = Finished(rec, "failed", "spawn")]
                 /\ UNCHANGED mux
       /\ hist' = Ran(spawned)
  /\ UNCHANGED <<stop, work, now, batVars, config, existsCache, tabsCache>>

\* lines 690-816: environment, env file, pty.spawn of zellij attach --create,
\* registration
Spawn(c) ==
  /\ call[c].pc = "spawn"
  /\ \E wrote \in BOOLEAN, spawned \in SpawnOutcomes :
       LET rec == [call[c] EXCEPT !.envFile = (call[c].userId # NoUser) /\ wrote] IN
       /\ IF spawned
         THEN /\ mux' = [mux EXCEPT ![MKey(c)] = AttachOrCreate(@)]
              /\ sessions' = Append(sessions, c)
              /\ term' = [term EXCEPT ![c] = Registered(80, 30)]
              /\ call' = [call EXCEPT ![c] = [rec EXCEPT !.pc = "ready"]]
         ELSE /\ call' = [call EXCEPT ![c] = Finished(rec, "failed", "spawn")]
              /\ UNCHANGED <<mux, sessions, term>>
       /\ hist' = Ran(spawned)
  /\ UNCHANGED <<stop, work, now, batVars, config, existsCache, tabsCache>>

\* lines 825-858: waitForReady resolves on the first flush or after
\* READY_TIMEOUT_MS
Ready(c) ==
  /\ call[c].pc = "ready"
  /\ call' = [call EXCEPT ![c] = [@ EXCEPT !.pc = "tab"]]
  /\ UNCHANGED <<stop, work, now, batVars, config, mux, existsCache, tabsCache, sessions, term, hist>>

\* history: the calls whose query of the key of c has returned its
\* observation but has not stored it yet when c invalidates that key
Overtaken(c, h) ==
  [h EXCEPT !.stale = @ \cup {d \in Calls \ {c} :
                                /\ call[d].pc \in {"existsResult", "tabsResult"}
                                /\ Key(d) = Key(c)}]

\* a create that forgets to invalidate the cache after changing the tabs
Invalidate_Forgotten(c) == UNCHANGED <<existsCache, tabsCache>>

\* this.zellijCache.invalidate(zellijSession, asUser)
Invalidate(c) ==
  /\ existsCache' = CacheDelete(existsCache, Key(c), NoExists)
  /\ tabsCache' = CacheDelete(tabsCache, Key(c), NoTabs)

\* the catch of lines 911-917
TabFailed(rec) == Finished(rec, "failed", "tab")

\* lines 866-870, 876-881, 897-902: the first tab action of the class
TabAction(c) ==
  /\ call[c].pc = "tab"
  /\ \E ok \in Outcomes :
       LET rec == call[c] IN
       CASE ~rec.sessionExists ->
              LET r == Issue(c, "rename-tab", ok) IN
              IF ok
                THEN /\ mux' = [mux EXCEPT ![MKey(c)] = RenameTab(@, rec.tabName)]
                     /\ Invalidate(c)
                     /\ call' = [call EXCEPT ![c] =
                                   [r EXCEPT !.pc = "init", !.invalidated = TRUE]]
                     /\ hist' = Overtaken(c, Ran(ok))
                ELSE /\ call' = [call EXCEPT ![c] = TabFailed(r)]
                     /\ hist' = Ran(ok)
                     /\ UNCHANGED <<mux, existsCache, tabsCache>>
         [] rec.sessionExists /\ rec.needsTabCreation ->
              LET r == Issue(c, "new-tab", ok) IN
              /\ IF ok
                   THEN /\ mux' = [mux EXCEPT ![MKey(c)] = NewTab(@, rec.tabName)]
                        /\ call' = [call EXCEPT ![c] = [r EXCEPT !.pc = "goto"]]
                   ELSE /\ call' = [call EXCEPT ![c] = TabFailed(r)]
                        /\ UNCHANGED mux
              /\ hist' = Ran(ok)
              /\ UNCHANGED <<existsCache, tabsCache>>
         [] rec.sessionExists /\ ~rec.needsTabCreation /\ rec.needsTabSwitch ->
              LET r == Issue(c, "go-to-tab-name", ok) IN
              /\ IF ok
                   THEN /\ mux' = [mux EXCEPT ![MKey(c)] = GoToTabName(@, rec.tabName)]
                        /\ call' = [call EXCEPT ![c] = [r EXCEPT !.pc = "ctrlc"]]
                   ELSE /\ call' = [call EXCEPT ![c] = TabFailed(r)]
                        /\ UNCHANGED mux
              /\ hist' = Ran(ok)
              /\ UNCHANGED <<existsCache, tabsCache>>
  /\ UNCHANGED <<stop, work, now, batVars, config, sessions, term>>

\* lines 882-888: go-to-tab-name after new-tab, then invalidate
GoToNewTab(c) ==
  /\ call[c].pc = "goto"
  /\ \E ok \in Outcomes :
       LET r == Issue(c, "go-to-tab-name", ok) IN
       IF ok
         THEN /\ mux' = [mux EXCEPT ![MKey(c)] = GoToTabName(@, call[c].tabName)]
              /\ Invalidate(c)
              /\ call' = [call EXCEPT ![c] = [r EXCEPT !.pc = "init", !.invalidated = TRUE]]
              /\ hist' = Overtaken(c, Ran(ok))
         ELSE /\ call' = [call EXCEPT ![c] = TabFailed(r)]
              /\ hist' = Ran(ok)
              /\ UNCHANGED <<mux, existsCache, tabsCache>>
  /\ UNCHANGED <<stop, work, now, batVars, config, sessions, term>>

\* write 3 run with throwOnError = true
CtrlC_Critical(c) ==
  /\ call[c].pc = "ctrlc"
  /\ \E ok \in Outcomes :
       /\ call' = [call EXCEPT ![c] =
                     IF ok THEN [Issue(c, "write 3", ok) EXCEPT !.pc = "init"]
                     ELSE TabFailed(Issue(c, "write 3", ok))]
       /\ hist' = Ran(ok)
  /\ UNCHANGED <<stop, work, now, batVars, config, mux, existsCache, tabsCache, sessions, term>>

\* line 905: write 3 (Ctrl+C), not critical
CtrlC(c) ==
  /\ call[c].pc = "ctrlc"
  /\ \E ok \in Outcomes :
       /\ call' = [call EXCEPT ![c] = [Issue(c, "write 3", ok) EXCEPT !.pc = "init"]]
       /\ hist' = Ran(ok)
  /\ UNCHANGED <<stop, work, now, batVars, config, mux, existsCache, tabsCache, sessions, term>>

\* an init command list whose cd depends on the directory in every class
BuildInitCommands_NoAlwaysCd(envFile, cwdIsHome, alwaysCd) ==
  (IF envFile THEN <<"source">> ELSE <<>>)
    \o (IF ~cwdIsHome THEN <<"cd">> ELSE <<>>)

\* buildInitCommands(envFile, cwd, alwaysCd) (lines 369-383)
BuildInitCommands(envFile, cwdIsHome, alwaysCd) ==
  (IF envFile THEN <<"source">> ELSE <<>>)
    \o (IF alwaysCd \/ ~cwdIsHome THEN <<"cd">> ELSE <<>>)

\* executeInitCommands up to its second await (lines 393-400): write-chars
InitCommands(c) ==
  /\ call[c].pc = "init"
  /\ LET rec == call[c]
         initCommands == BuildInitCommands(rec.envFile, rec.cwdIsHome, rec.sessionExists)
     IN IF initCommands = <<>>
          THEN /\ call' = [call EXCEPT ![c] = Finished(@, "done", None)]
               /\ hist' = Returned(c, hist)
          ELSE \E ok \in Outcomes :
                 /\ call' = [call EXCEPT ![c] =
                               [Issue(c, "write-chars", ok) EXCEPT
                                  !.pc = "enter",
                                  !.script = initCommands,
                                  !.injected = <<"write-chars">>]]
                 /\ hist' = Ran(ok)
  /\ UNCHANGED <<stop, work, now, batVars, config, mux, existsCache, tabsCache, sessions, term>>

\* line 401: write 10, then create returns (line 919)
Enter(c) ==
  /\ call[c].pc = "enter"
  /\ \E ok \in Outcomes :
       /\ call' = [call EXCEPT ![c] =
                     Finished([Issue(c, "write 10", ok) EXCEPT
                                 !.injected = Append(@, "write 10")], "done", None)]
       /\ hist' = Returned(c, Ran(ok))
  /\ UNCHANGED <<stop, work, now, batVars, config, mux, existsCache, tabsCache, sessions, term>>

\* ------------------------------------------------------------------------
\* PTY exit, remove, cleanup (set.ts:798-816, 976-1004)
\* ------------------------------------------------------------------------
\* a removal path that destroys the batcher without flushing it
FlushAndDestroy_NoFlush(t) ==
  [t EXCEPT !.batcher = BatcherDestroy(t.batcher),
            !.destroyed = TRUE,
            !.log = @ \o <<"destroy">>]

\* session.batcher.flush(); session.batcher.destroy()
FlushAndDestroy(t) ==
  [t EXCEPT !.batcher = BatcherDestroy(BatcherFlush(t.batcher).b),
            !.dataEvents = @ + Len(BatcherFlush(t.batcher).out),
            !.flushes = @ + 1,
            !.destroyed = TRUE,
            !.log = @ \o <<"flush", "destroy">>]

\* this.sessions.delete(id)
Delete(ids, id) == SelectSeq(ids, LAMBDA x : x # id)

InTable(id) == \E i \in 1..Len(sessions) : sessions[i] = id

\* ptyProcess.onExit callback (lines 798-816)
PtyExit(id) ==
  /\ term[id].ptyAlive
  /\ term' = [term EXCEPT ![id] =
                [FlushAndDestroy(@) EXCEPT
                   !.ptyAlive = FALSE, !.exitEvents = @ + 1,
                   !.log = @ \o (IF InTable(id) THEN <<"delete">> ELSE <<>>) \o <<"exit">>]]
  /\ sessions' = Delete(sessions, id)
  /\ UNCHANGED <<stop, work, now, batVars, config, mux, existsCache, tabsCache, call, hist>>

\* whether a pty.kill throws
KillThrows == IF hist.faults < MaxFaults THEN BOOLEAN ELSE {FALSE}

\* remove(id) that kills the PTY and leaves the record in the table
Remove_KeepRecord(id) ==
  /\ InTable(id)
  /\ term[id].kills < MaxFaults + 1
  /\ term' = [term EXCEPT ![id] =
                [FlushAndDestroy(@) EXCEPT !.kills = @ + 1, !.removed = TRUE,
                                           !.log = @ \o <<"kill">>]]
  /\ UNCHANGED <<stop, work, now, batVars, config, mux, existsCache, tabsCache, sessions, call, hist>>

\* remove(id) of a known id (lines 976-991); pty.kill may throw
Remove(id) ==
  /\ InTable(id)
  /\ \E killThrows \in KillThrows :
       /\ term' = [term EXCEPT ![id] =
                     [FlushAndDestroy(@) EXCEPT
                        !.kills = @ + 1,
                        !.removed = @ \/ ~killThrows,
                        !.log = @ \o <<"kill">> \o (IF killThrows THEN <<>> ELSE <<"delete">>)]]
       /\ sessions' = IF killThrows THEN sessions ELSE Delete(sessions, id)
       /\ hist' = Ran(~killThrows)
  /\ UNCHANGED <<stop, work, now, batVars, config, mux, existsCache, tabsCache, call>>

\* the terminals cleanup() reaches when the kills of `throwing` throw: the
\* loop of lines 997-1002 stops at the first of them
RECURSIVE Reached(_, _)
Reached(ids, throwing) ==
  IF ids = <<>> THEN <<>>
  ELSE IF Head(ids) \in throwing THEN <<Head(ids)>>
  ELSE <<Head(ids)>> \o Reached(Tail(ids), throwing)

SeqToSet(ids) == {ids[i] : i \in 1..Len(ids)}

\* cleanup() (lines 996-1004)
Cleanup ==
  \E throwing \in SUBSET SeqToSet(sessions) :
    LET reached == SeqToSet(Reached(sessions, throwing))
        threw == reached \cap throwing # {}
    IN /\ throwing # {} => hist.faults < MaxFaults
       /\ term' = [id \in DOMAIN term |->
                     IF id \in reached
                       THEN [FlushAndDestroy(term[id]) EXCEPT
                               !.kills = @ + 1,
                               !.log = @ \o <<"kill">> \o (IF threw THEN <<>> ELSE <<"delete">>)]
                       ELSE term[id]]
       /\ sessions' = IF threw THEN sessions ELSE <<>>
       /\ hist' = [Ran(~threw) EXCEPT
                     !.cleanups = @ \cup {IF threw THEN "threw" ELSE "returned"}]
       /\ UNCHANGED <<stop, work, now, batVars, config, mux, existsCache, tabsCache, call>>

\* Date.now() advances, in steps of the cache TTL
Tick ==
  /\ now < MaxSteps * TAB_CACHE_TTL_MS
  /\ now' = now + TAB_CACHE_TTL_MS
  /\ UNCHANGED <<stop, work, batVars, svcVars>>

\* ------------------------------------------------------------------------
\* The service: concurrent creates over one cache and one multiplexer
\* ------------------------------------------------------------------------
Init ==
  /\ work = NoWork
  /\ now = 0
  /\ bat = NewBatcher
  /\ stop = NoStop
  /\ batPushed = <<>>
  /\ batEmits = <<>>
  /\ batOps = {}
  /\ config \in Configs
  /\ \E s \in InitialSessions : mux = [k \in MuxKeys |-> s]
  /\ existsCache = [k \in CacheKeys |-> NoExists]
  /\ tabsCache = [k \in CacheKeys |-> NoTabs]
  /\ sessions = <<>>
  /\ term = [id \in Calls |-> NoTerminal]
  /\ call = [c \in Calls |-> NoCall]
  /\ hist = [overlap |-> FALSE, faults |-> 0, readSince |-> {}, cleanups |-> {},
            last |-> NoOp, stale |-> {}, hang |-> FALSE]

Next ==
  \/ \E c \in Calls :
       \/ CreateBegin(c)
       \/ ExistsStart(c) \/ ExistsQuery(c) \/ ExistsResult(c)
       \/ TabsStart(c) \/ TabsQuery(c) \/ TabsResult(c)
       \/ Spawn(c) \/ Ready(c)
       \/ TabAction(c) \/ GoToNewTab(c) \/ CtrlC(c)
       \/ InitCommands(c) \/ Enter(c)
  \/ Tick

Spec == Init /\ [][Next]_vars

\* ------------------------------------------------------------------------
\* Identity and names: the first statements of create under every
\* unix_user_mode and for every caller
\* ------------------------------------------------------------------------
AllConfigs == [mode : Modes, executor : {None, "agor_executor"}]
AllUsers == UserIds \cup {NoUser}

NameInit ==
  /\ work = NoWork
  /\ now = 0
  /\ bat = NewBatcher
  /\ stop = NoStop
  /\ batPushed = <<>>
  /\ batEmits = <<>>
  /\ batOps = {}
  /\ config \in AllConfigs
  /\ mux = [k \in MuxKeys |-> NoSession]
  /\ existsCache = [k \in CacheKeys |-> NoExists]
  /\ tabsCache = [k \in CacheKeys |-> NoTabs]
  /\ sessions = <<>>
  /\ term = [id \in Calls |-> NoTerminal]
  /\ call = [c \in Calls |-> NoCall]
  /\ hist = [overlap |-> FALSE, faults |-> 0, readSince |-> {}, cleanups |-> {},
            last |-> NoOp, stale |-> {}, hang |-> FALSE]

\* create(data, params) up to the computation of zellijSession and asUser
NameCreate(c) ==
  /\ call[c].pc = "idle"
  /\ \E auth \in AllUsers, userId \in AllUsers, worktreeName \in WorktreeInputs :
       CreateWith(c, auth, userId, worktreeName)
  /\ UNCHANGED <<stop, work, now, batVars, config, mux, existsCache, tabsCache, sessions, term, hist>>

NameNext == \E c \in Calls : NameCreate(c)

NameSpec == NameInit /\ [][NameNext]_vars

\* C22: two creates that resolved the same acting OS identity computed the
\* same multiplexer session name, whatever their worktree and requesting
\* user.
C22_SessionNameOfIdentity ==
  \A c1, c2 \in Calls :
    (/\ call[c1].pc = "exists" /\ call[c2].pc = "exists"
     /\ call[c1].asUser = call[c2].asUser)
      => call[c1].zellijSession = call[c2].zellijSession


\* ------------------------------------------------------------------------
\* ZellijSessionCache read by callers of several keys, invalidated, over time
\* ------------------------------------------------------------------------
CacheConfigs == {[mode |-> "impersonate_if_mapped", executor |-> None]}

\* Date.now() at the reads: around the ends of the TTL window
CacheTimes == {0, TAB_CACHE_TTL_MS - 1, TAB_CACHE_TTL_MS}

\* one caller at a time reads, under one identity or another
CacheCallers == {1}

CacheInit ==
  /\ work = NoWork
  /\ now = 0
  /\ bat = NewBatcher
  /\ stop = NoStop
  /\ batPushed = <<>>
  /\ batEmits = <<>>
  /\ batOps = {}
  /\ config \in CacheConfigs
  /\ \E s \in InitialSessions : mux = [k \in MuxKeys |-> s]
  /\ existsCache = [k \in CacheKeys |-> NoExists]
  /\ tabsCache = [k \in CacheKeys |-> NoTabs]
  /\ sessions = <<>>
  /\ term = [id \in Calls |-> NoTerminal]
  /\ call = [c \in Calls |-> NoCall]
  /\ hist = [overlap |-> FALSE, faults |-> 0, readSince |-> {}, cleanups |-> {},
            last |-> NoOp, stale |-> {}, hang |-> FALSE]

\* a caller computes its session name and identity and is about to read
\* the cache (lines 570-666)
CacheCaller(c) ==
  /\ call[c].pc = "idle"
  /\ \E auth \in UserIds : CreateWith(c, auth, NoUser, "A")
  /\ UNCHANGED <<stop, work, now, batVars, config, mux, existsCache, tabsCache, sessions, term, hist>>

\* this.zellijCache.invalidate(zellijSession, asUser) by a caller whose
\* reads are over
CacheInvalidate(c) ==
  /\ call[c].pc = "spawn"
  /\ Invalidate(c)
  /\ UNCHANGED <<stop, work, now, batVars, config, mux, sessions, term, call, hist>>

\* the caller is done
CacheCallerEnds(c) ==
  /\ call[c].pc = "spawn"
  /\ call' = [call EXCEPT ![c] = NoCall]
  /\ UNCHANGED <<stop, work, now, batVars, config, mux, existsCache, tabsCache, sessions, term, hist>>

\* Date.now() advances
CacheTick ==
  /\ \E t \in CacheTimes : t > now /\ now' = t
  /\ UNCHANGED <<stop, work, batVars, svcVars>>

CacheNext ==
  \/ \E c \in CacheCallers :
       \/ CacheCaller(c)
       \/ ExistsStart(c) \/ ExistsQuery(c) \/ ExistsResult(c)
       \/ TabsStart(c) \/ TabsQuery(c) \/ TabsResult(c)
       \/ CacheInvalidate(c) \/ CacheCallerEnds(c)
  \/ CacheTick

CacheSpec == CacheInit /\ [][CacheNext]_vars

\* an entry younger than the TTL at time t
Fresh(entry, t) == entry.has /\ t - entry.timestamp < TAB_CACHE_TTL_MS

\* the entries of every key but k are as before
OtherKeysKept(k) ==
  \A k2 \in CacheKeys \ {k} :
    existsCache'[k2] = existsCache[k2] /\ tabsCache'[k2] = tabsCache[k2]

\* C27: a sessionExists or getTabs read with a fresh entry of its kind under
\* its key returns the stored value and runs no query; any other read runs
\* exactly one query and stores its result under that key; invalidate removes
\* both entries of its key and no entry of another key.
C27_ReadStep ==
  \A c \in CacheCallers :
    call'[c] # call[c] =>
      /\ call[c].pc = "exists" =>
           IF Fresh(existsCache[Key(c)], now)
             THEN /\ call'[c] = AfterExists(call[c], existsCache[Key(c)].val)
                  /\ UNCHANGED <<existsCache, tabsCache, mux, hist>>
             ELSE /\ call'[c].pc = "existsQuery"
                  /\ call'[c].queries = 0
                  /\ UNCHANGED <<existsCache, tabsCache>>
      /\ call[c].pc = "existsQuery" =>
           /\ call'[c].pc = "existsResult"
           /\ call'[c].queries = 1
           /\ UNCHANGED <<existsCache, tabsCache>>
      /\ call[c].pc = "existsResult" =>
           /\ call[c].queries = 1
           /\ call'[c] = AfterExists(call[c], call[c].obsExists)
           /\ existsCache'[Key(c)].has
           /\ existsCache'[Key(c)].val = call[c].obsExists
           /\ tabsCache'[Key(c)] = tabsCache[Key(c)]
           /\ OtherKeysKept(Key(c))
      /\ call[c].pc = "tabs" =>
           IF Fresh(tabsCache[Key(c)], now)
             THEN /\ call'[c] = Classified(call[c], TRUE, tabsCache[Key(c)].val)
                  /\ UNCHANGED <<existsCache, tabsCache, mux>>
                  /\ hist'.faults = hist.faults
             ELSE /\ call'[c].pc = "tabsQuery"
                  /\ call'[c].queries = 0
                  /\ UNCHANGED <<existsCache, tabsCache>>
      /\ call[c].pc = "tabsQuery" =>
           /\ call'[c].pc = "tabsResult"
           /\ call'[c].queries = 1
           /\ UNCHANGED <<existsCache, tabsCache>>
      /\ call[c].pc = "tabsResult" =>
           /\ call[c].queries = 1
           /\ call'[c] = Classified(call[c], TRUE, call[c].obsTabs)
           /\ tabsCache'[Key(c)].has
           /\ tabsCache'[Key(c)].val = call[c].obsTabs
           /\ existsCache'[Key(c)] = existsCache[Key(c)]
           /\ OtherKeysKept(Key(c))
C27_InvalidateStep ==
  \A c \in CacheCallers :
    CacheInvalidate(c) =>
      /\ ~existsCache'[Key(c)].has
      /\ ~tabsCache'[Key(c)].has
      /\ OtherKeysKept(Key(c))
C27_CacheReadsAndInvalidate == [][C27_ReadStep /\ C27_InvalidateStep]_vars

\* at TTL - 1 a caller got sessionExists from the entry stored at 0 (the
\* entry still carries that timestamp) although the key's tab list was read
\* anew at TTL - 1, and the other key has its entries
C27_Witness ==
  /\ call[1].pc = "tabs"
  /\ now = TAB_CACHE_TTL_MS - 1
  /\ existsCache[Key(1)].has /\ existsCache[Key(1)].timestamp = 0
  /\ tabsCache[Key(1)].has /\ tabsCache[Key(1)].timestamp = TAB_CACHE_TTL_MS - 1
  /\ \E k \in CacheKeys \ {Key(1)} : existsCache[k].has /\ tabsCache[k].has

\* ------------------------------------------------------------------------
\* handleStopWithAck: stop signal, acknowledgment, completion, safety nets
\* ------------------------------------------------------------------------
MAX_RETRIES == 3
ACK_TIMEOUT_MS == 5000
STOP_COMPLETE_TIMEOUT_MS == 30000

\* the task being stopped and another task of the same executor
TaskId == "task"
TaskIds == {TaskId, "other"}

StopFrame == UNCHANGED <<work, batVars, svcVars>>

\* one iteration of the loop up to its await (lines 65-97): the next
\* sequence number, the ACK listener and its timeout, the task_stop event
SendStop(st, t) ==
  [st EXCEPT !.pc = "waitAck",
             !.sequence = @ + 1,
             !.ackListener = TRUE,
             !.ackDue = t + ACK_TIMEOUT_MS,
             !.ackSettled = "no",
             !.sent = Append(@, [sequence |-> st.sequence + 1, at |-> t])]

\* handleStopWithAck is called (lines 52-97)
StopBegin ==
  /\ stop.pc = "idle"
  /\ stop' = SendStop(stop, now)
  /\ UNCHANGED now
  /\ StopFrame

\* an ackHandler that does not compare the sequence number
AckEvent_AnySequence(task, sequence) ==
  /\ stop.pc # "idle"
  /\ LET accepted == stop.ackListener /\ task = TaskId
         seen == [task |-> task, sequence |-> sequence,
                  current |-> stop.sequence, accepted |-> accepted]
     IN stop' = IF accepted
                  THEN [stop EXCEPT !.ackListener = FALSE, !.ackDue = NoTimer,
                                    !.ackSettled = "true", !.lastAck = seen,
                                    !.acceptedAck = seen]
                  ELSE [stop EXCEPT !.lastAck = seen]
  /\ UNCHANGED now
  /\ StopFrame

\* a 'task_stop_ack' event reaches the sessions service: ackHandler, if it
\* is still registered, runs (lines 78-85)
AckEvent(task, sequence) ==
  /\ stop.pc # "idle"
  /\ LET accepted == stop.ackListener /\ task = TaskId /\ sequence = stop.sequence
         seen == [task |-> task, sequence |-> sequence,
                  current |-> stop.sequence, accepted |-> accepted]
     IN stop' = IF accepted
                  THEN [stop EXCEPT !.ackListener = FALSE, !.ackDue = NoTimer,
                                    !.ackSettled = "true", !.lastAck = seen,
                                    !.acceptedAck = seen]
                  ELSE [stop EXCEPT !.lastAck = seen]
  /\ UNCHANGED now
  /\ StopFrame

\* the ACK timeout fires (lines 73-76)
AckTimeout ==
  /\ stop.ackDue # NoTimer
  /\ now >= stop.ackDue
  /\ stop' = [stop EXCEPT !.ackListener = FALSE, !.ackDue = NoTimer,
                          !.ackSettled = "false", !.timeouts = @ + 1]
  /\ UNCHANGED now
  /\ StopFrame

\* phase 2 up to its await (lines 137-157): the completion listener and its
\* timeout
AwaitComplete(st, t) ==
  [st EXCEPT !.pc = "waitComplete",
             !.completeListener = TRUE,
             !.completeDue = t + STOP_COMPLETE_TIMEOUT_MS,
             !.completeSettled = "no"]

\* `ackReceived = await ackPromise` continues (lines 97-112): break on an
\* ACK, else the next iteration, or the forced stop after the last one
AckContinue ==
  /\ stop.pc = "waitAck"
  /\ stop.ackSettled # "no"
  /\ stop' =
       IF stop.ackSettled = "true"
         THEN AwaitComplete([stop EXCEPT !.ackReceived = TRUE], now)
       ELSE IF stop.attempt + 1 < MAX_RETRIES
         THEN SendStop([stop EXCEPT !.attempt = @ + 1], now)
       ELSE [stop EXCEPT !.attempt = @ + 1, !.pc = "forceTask"]
  /\ UNCHANGED now
  /\ StopFrame

\* the executor marks the task stopped on its own
ExecutorStopsTask ==
  /\ stop.sent # <<>>
  /\ stop.taskStatus = "running"
  /\ stop' = [stop EXCEPT !.taskStatus = "stopped"]
  /\ UNCHANGED now
  /\ StopFrame

\* a 'task_stopped_complete' event reaches the sessions service, after the
\* first task_stop was sent; the executor reports the completion of a task
\* once (history: completed).  completeHandler, if it is registered, runs
\* (lines 146-153); an event without a listener is dropped by the emitter.
CompleteEvent(task) ==
  /\ stop.pc # "idle"
  /\ task = TaskId => ~stop.completed
  /\ stop' = IF task # TaskId THEN stop
             ELSE IF stop.completeListener
               THEN [stop EXCEPT !.completeListener = FALSE, !.completeDue = NoTimer,
                                 !.completeSettled = "true", !.completed = TRUE]
               ELSE [stop EXCEPT !.completed = TRUE]
  /\ UNCHANGED now
  /\ StopFrame

\* the completion timeout fires (lines 141-144)
CompleteTimeout ==
  /\ stop.completeDue # NoTimer
  /\ now >= stop.completeDue
  /\ stop' = [stop EXCEPT !.completeListener = FALSE, !.completeDue = NoTimer,
                          !.completeSettled = "false"]
  /\ UNCHANGED now
  /\ StopFrame

\* `stopComplete = await completePromise` continues (lines 157-159, 184-188)
CompleteContinue ==
  /\ stop.pc = "waitComplete"
  /\ stop.completeSettled # "no"
  /\ stop' = [stop EXCEPT !.pc = IF stop.completeSettled = "true"
                                   THEN "finalSession" ELSE "forceTask"]
  /\ UNCHANGED now
  /\ StopFrame

\* the safety net's tasks.patch (lines 115-119, 166-169); if it throws, the
\* catch logs and the function returns success: true (lines 127-135, 177-182)
ForceTask ==
  /\ stop.pc = "forceTask"
  /\ \E ok \in BOOLEAN :
       stop' = IF ok
                 THEN [stop EXCEPT !.pc = "forceSession", !.taskStatus = "stopped",
                                   !.patched = @ \cup {"task"}]
                 ELSE [stop EXCEPT !.pc = "done", !.result = "success"]
  /\ UNCHANGED now
  /\ StopFrame

\* the safety net's sessions.patch (lines 121-124, 171-174), then the
\* return of lines 131-135 or 179-182
ForceSession ==
  /\ stop.pc = "forceSession"
  /\ \E ok \in BOOLEAN :
       stop' = IF ok
                 THEN [stop EXCEPT !.pc = "done", !.result = "success",
                                   !.sessionStatus = "idle", !.readyForPrompt = FALSE,
                                   !.patched = @ \cup {"session"}]
                 ELSE [stop EXCEPT !.pc = "done", !.result = "success"]
  /\ UNCHANGED now
  /\ StopFrame

\* phase 3 (lines 190-212): sessions.patch after the confirmed stop
FinalSession ==
  /\ stop.pc = "finalSession"
  /\ \E ok \in BOOLEAN :
       stop' = IF ok
                 THEN [stop EXCEPT !.pc = "done", !.result = "success",
                                   !.sessionStatus = "idle", !.readyForPrompt = FALSE,
                                   !.patched = @ \cup {"session"}]
                 ELSE [stop EXCEPT !.pc = "done", !.result = "failure"]
  /\ UNCHANGED now
  /\ StopFrame

\* the deadlines of the timeouts of the stop call pending in the runtime
StopDues == {stop.ackDue, stop.completeDue} \ {NoTimer}

\* time passes while the call waits: by half an ACK timeout or to the
\* pending deadline, never past it and not while a continuation is runnable
StopAdvance ==
  /\ StopDues # {}
  /\ \A d \in StopDues : d > now
  /\ stop.pc = "waitAck" => stop.ackSettled = "no"
  /\ stop.pc = "waitComplete" => stop.completeSettled = "no"
  /\ \E target \in StopDues \cup {now + ACK_TIMEOUT_MS \div 2} :
       /\ \A d \in StopDues : target <= d
       /\ now' = target
  /\ UNCHANGED stop
  /\ StopFrame

StopInit ==
  /\ work = NoWork
  /\ now = 0
  /\ bat = NewBatcher
  /\ stop = NoStop
  /\ batPushed = <<>>
  /\ batEmits = <<>>
  /\ batOps = {}
  /\ SvcFixed

StopNext ==
  \/ StopBegin
  \/ \E task \in TaskIds, sequence \in 1..MAX_RETRIES : AckEvent(task, sequence)
  \/ AckTimeout \/ AckContinue
  \/ ExecutorStopsTask
  \/ \E task \in TaskIds : CompleteEvent(task)
  \/ CompleteTimeout \/ CompleteContinue
  \/ ForceTask \/ ForceSession \/ FinalSession
  \/ StopAdvance

StopSpec == StopInit /\ [][StopNext]_vars

\* C23: a handleStopWithAck call emits at most MAX_RETRIES task_stop
\* signals, numbered 1, 2, 3 in that order; each further signal follows a
\* timed-out ACK wait of ACK_TIMEOUT_MS, none follows an accepted ACK, and
\* an ACK is accepted only with the task id and the current sequence number.
C23_Signals ==
  /\ Len(stop.sent) <= MAX_RETRIES
  /\ \A i \in 1..Len(stop.sent) : stop.sent[i].sequence = i
  /\ \A i \in 2..Len(stop.sent) :
       stop.sent[i].at >= stop.sent[i - 1].at + ACK_TIMEOUT_MS
  /\ Len(stop.sent) <= stop.timeouts + 1
  /\ \A a \in {stop.lastAck, stop.acceptedAck} :
       a.accepted =>
         /\ a.task = TaskId
         /\ a.sequence = a.current
         /\ Len(stop.sent) = a.sequence
  /\ (stop.ackReceived \/ stop.ackSettled = "true") => stop.acceptedAck.accepted
C23_Step ==
  /\ (stop.ackSettled = "true" \/ stop.ackReceived) => stop'.sent = stop.sent
  /\ stop'.sent # stop.sent =>
       /\ Len(stop'.sent) = Len(stop.sent) + 1
       /\ stop.sent # <<>> => (stop.pc = "waitAck" /\ stop.ackSettled = "false")
C23_StopSignalsBounded == []C23_Signals /\ [][C23_Step]_vars

\* three signals were sent; an ACK of an earlier signal arrived during the
\* third wait and was not accepted
C23_Witness ==
  /\ Len(stop.sent) = MAX_RETRIES
  /\ stop.pc = "waitAck" /\ stop.ackListener
  /\ stop.lastAck.task = TaskId
  /\ stop.lastAck.sequence = 2 /\ stop.lastAck.current = 3
  /\ ~stop.lastAck.accepted

\* C24: handleStopWithAck returns success: true only with the session
\* patched to IDLE and ready_for_prompt = false, and a call that patched the
\* task to STOPPED has patched the session too when it returns.
C24_SuccessMeansPatched ==
  stop.pc = "done" =>
    /\ stop.result = "success" =>
         /\ "session" \in stop.patched
         /\ stop.sessionStatus = "idle"
         /\ ~stop.readyForPrompt
    /\ "task" \in stop.patched => "session" \in stop.patched

\* C40: a task_stopped_complete signal of the task emitted at any time
\* after the first task_stop is observed by handleStopWithAck: a call whose
\* executor acknowledged and completed the stop never runs into the
\* completion timeout and its forced stop.
C40_Step ==
  (stop.pc = "waitComplete" /\ stop.completeSettled = "no"
     /\ stop'.completeSettled = "false")
    => ~stop.completed
C40_CompletionObserved == [][C40_Step]_vars

\* ------------------------------------------------------------------------
\* Authorization hooks: hasMinimumRole / ensureMinimumRole / requireMinimumRole
\* ------------------------------------------------------------------------
\* type Role
Roles == {"viewer", "member", "admin", "owner"}

\* params.user.role as stored: the roles, one in capitals, one no role, an
\* unknown one and two that name properties every object inherits; None is
\* a user without a role
RoleInputs == Roles \cup {"ADMIN", "guest", "constructor", "__proto__", None}

\* String.prototype.toLowerCase on these
ToLowerCase(str) == IF str = "ADMIN" THEN "admin" ELSE str

\* the property names an object literal inherits from Object.prototype,
\* among the lower-case strings
InheritedKeys == {"constructor", "__proto__"}

\* a JavaScript value: a number, a function or object, or undefined
Number(n) == [type |-> "number", n |-> n]
AnObject == [type |-> "object", n |-> 0]
Undefined == [type |-> "undefined", n |-> 0]

\* ROLE_RANK[key]: own properties are numbers, inherited ones are a
\* function or an object, anything else is undefined
ROLE_RANK(key) ==
  CASE key = "viewer" -> Number(0)
    [] key = "member" -> Number(1)
    [] key = "admin" -> Number(2)
    [] key = "owner" -> Number(3)
    [] key \in InheritedKeys -> AnObject
    [] OTHER -> Undefined

\* a >= b of JavaScript: a function or an object converts to NaN, and NaN
\* compares false
GreaterOrEqual(a, b) ==
  IF a.type = "number" /\ b.type = "number" THEN a.n >= b.n ELSE FALSE

\* hasMinimumRole(userRole, minimumRole) (part_007:20-29)
HasMinimumRole(userRole, minimumRole) ==
  IF userRole = None THEN minimumRole = "viewer"
  ELSE LET normalizedRole == ToLowerCase(userRole)
           looked == ROLE_RANK(normalizedRole)
           userRank == IF looked = Undefined THEN ROLE_RANK("viewer") ELSE looked
       IN GreaterOrEqual(userRank, ROLE_RANK(minimumRole))

\* the requests: params.provider set or not, params.user present or not,
\* its _isServiceAccount flag and its role
Requests ==
  [provider : BOOLEAN, user : BOOLEAN, isServiceAccount : BOOLEAN, role : RoleInputs]

\* ensureMinimumRole(params, minimumRole, action) (part_007:37-60): returns
\* or throws NotAuthenticated / Forbidden
EnsureMinimumRole(params, minimumRole) ==
  IF ~params.provider THEN "returned"
  ELSE IF ~params.user THEN "NotAuthenticated"
  ELSE IF params.isServiceAccount THEN "returned"
  ELSE IF ~HasMinimumRole(params.role, minimumRole) THEN "Forbidden"
  ELSE "returned"

AuthInit ==
  /\ work = NoWork
  /\ now = 0
  /\ bat = NewBatcher
  /\ stop = NoStop
  /\ batPushed = <<>>
  /\ batEmits = <<>>
  /\ batOps = {}
  /\ SvcFixed

\* a call of a service method behind the before hook requireMinimumRole(min)
\* (part_007:65-70): the method runs if the hook returns the context
CallBehindHook ==
  /\ \E params \in Requests, minimumRole \in Roles :
       LET outcome == EnsureMinimumRole(params, minimumRole) IN
       work' = [fn |-> "requireMinimumRole",
                input |-> <<params, minimumRole>>,
                output |-> <<outcome>>,
                value |-> <<outcome = "returned">>,
                expected |-> <<>>]
  /\ UNCHANGED <<stop, now, batVars, svcVars>>

AuthNext == CallBehindHook

AuthSpec == AuthInit /\ [][AuthNext]_vars

\* the rank of a role as the claim orders them: viewer < member < admin <
\* owner in any letter case, every other role and no role as viewer
RankOf(role) ==
  LET looked == ROLE_RANK(ToLowerCase(role)) IN
  IF looked.type = "number" THEN looked.n ELSE 0

\* C25: for an external request of a user that is no service account, the
\* hook lets the call through exactly if a user is present and its role
\* ranks at least as high as the minimum; no user gives NotAuthenticated, a
\* lower role gives Forbidden, and the method runs only if the hook passed.
C25_MinimumRoleEnforced ==
  work.fn = "requireMinimumRole" =>
    LET params == work.input[1]
        minimumRole == work.input[2]
        outcome == work.output[1]
        executed == work.value[1]
    IN (params.provider /\ ~(params.user /\ params.isServiceAccount)) =>
         /\ outcome = "returned"
              <=> (params.user /\ RankOf(params.role) >= RankOf(minimumRole))
         /\ ~params.user => outcome = "NotAuthenticated"
         /\ (params.user /\ RankOf(params.role) < RankOf(minimumRole))
              => outcome = "Forbidden"
         /\ executed <=> outcome = "returned"

\* ------------------------------------------------------------------------
\* The terminal table: registered terminals, their PTYs and batchers
\* ------------------------------------------------------------------------
\* lines 761-794 of a create whose spawn succeeded: the terminal is stored
Register(id) ==
  /\ ~term[id].registered
  /\ \A d \in 1..(id - 1) : term[d].registered
  /\ term' = [term EXCEPT ![id] = Registered(80, 30)]
  /\ sessions' = Append(sessions, id)
  /\ UNCHANGED <<stop, work, now, batVars, config, mux, existsCache, tabsCache, call, hist>>

DataSizes == {1, MAX_BUFFER_SIZE}

\* the emit of lines 763-772
Emit(t, out) == [t EXCEPT !.dataEvents = @ + Len(out)]

\* ptyProcess.onData callback (lines 792-794)
PtyData(id) ==
  /\ term[id].ptyAlive
  /\ term[id].pushes < MaxData
  /\ \E n \in DataSizes :
       LET res == BatcherPush(term[id].batcher,
                              [id |-> term[id].pushes + 1, len |-> n], now)
       IN term' = [term EXCEPT ![id] =
                     [Emit(@, res.out) EXCEPT !.batcher = res.b, !.pushes = @ + 1]]
  /\ UNCHANGED <<stop, work, now, batVars, config, mux, existsCache, tabsCache, sessions, call, hist>>

\* a batch timer of terminal id fires
TermTimer(id) ==
  /\ \E x \in DueTimeouts(term[id].batcher, now) :
       LET res == BatcherTimeout(term[id].batcher, x)
       IN term' = [term EXCEPT ![id] = [Emit(@, res.out) EXCEPT !.batcher = res.b]]
  /\ UNCHANGED <<stop, work, now, batVars, config, mux, existsCache, tabsCache, sessions, call, hist>>

TableInit ==
  /\ work = NoWork
  /\ now = 0
  /\ bat = NewBatcher
  /\ stop = NoStop
  /\ batPushed = <<>>
  /\ batEmits = <<>>
  /\ batOps = {}
  /\ SvcFixed

TableNext ==
  \/ \E id \in Calls :
       \/ Register(id) \/ PtyData(id) \/ TermTimer(id)
       \/ PtyExit(id) \/ Remove(id)
  \/ Cleanup
  \/ BatTick

TableSpec == TableInit /\ [][TableNext]_vars

\* C4: cleanup() never throws and is best effort: whichever kills throw,
\* every terminal of the table has its batcher flushed and destroyed and
\* its termination attempted, and the table is empty afterwards.
C4_Step ==
  Cleanup =>
    /\ "threw" \notin hist'.cleanups
    /\ sessions' = <<>>
    /\ \A id \in SeqToSet(sessions) :
          /\ term'[id].destroyed
          /\ term'[id].flushes = term[id].flushes + 1
          /\ term'[id].kills = term[id].kills + 1
C4_CleanupBestEffort == [][C4_Step]_vars

\* C21: wherever a terminal record leaves the table (PTY exit, remove,
\* cleanup) its batcher was flushed and then destroyed first, with the
\* buffered output emitted; remove and cleanup send the termination signal
\* only after that, PTY exit emits 'exit' only after that, and 'exit' is
\* emitted at most once per terminal.
C21_Order ==
  \A id \in Calls :
    LET log == term[id].log IN
    /\ \A i \in 1..Len(log) :
         /\ log[i] = "kill"
              => (i > 2 /\ log[i - 2] = "flush" /\ log[i - 1] = "destroy")
         /\ log[i] = "delete"
              => /\ i > 2
                 /\ \/ log[i - 2] = "flush" /\ log[i - 1] = "destroy"
                    \/ i > 3 /\ log[i - 3] = "flush" /\ log[i - 2] = "destroy"
                             /\ log[i - 1] = "kill"
         /\ log[i] = "exit"
              => /\ i > 2
                 /\ \/ log[i - 2] = "flush" /\ log[i - 1] = "destroy"
                    \/ i > 3 /\ log[i - 3] = "flush" /\ log[i - 2] = "destroy"
                             /\ log[i - 1] = "delete"
    /\ Cardinality({i \in 1..Len(log) : log[i] = "exit"}) <= 1
    /\ term[id].exitEvents <= 1
C21_Step ==
  \A id \in Calls :
    (InTable(id) /\ ~(\E i \in 1..Len(sessions') : sessions'[i] = id)) =>
      /\ term'[id].batcher.buffer = <<>>
      /\ term'[id].batcher.timeouts = {}
      /\ term'[id].destroyed
      /\ term'[id].flushes = term[id].flushes + 1
      /\ term'[id].dataEvents =
           term[id].dataEvents + (IF term[id].batcher.buffer = <<>> THEN 0 ELSE 1)
C21_FlushDestroyBeforeRemoval == []C21_Order /\ [][C21_Step]_vars

\* a terminal was removed before its batch timer could fire, its one chunk
\* of output was emitted, and its PTY exited afterwards
C21_Witness ==
  \E id \in Calls :
    /\ term[id].log = <<"flush", "destroy", "kill", "delete", "flush", "destroy", "exit">>
    /\ now = 0
    /\ term[id].pushes = 1
    /\ term[id].dataEvents = 1

\* ------------------------------------------------------------------------
\* get / find / patch / remove on the terminal table (set.ts:925-991)
\* ------------------------------------------------------------------------
\* terminal ids a caller may pass: those create hands out and one it never does
UnknownId == MaxCalls + 1
Ids == Calls \cup {UnknownId}

\* data.input: absent (<<>>) or a string, the empty one included
InputChoices == {<<>>, <<"">>, <<"ls">>}
\* data.resize: absent (<<>>) or <<cols, rows>>
ResizeChoices == {<<>>, <<120, 40>>, <<1, 1>>}

Op(op, id, result, listed) == [op |-> op, id |-> id, result |-> result, listed |-> listed]

\* this.sessions.get(id) finds a record
Known(id) == id \in Calls /\ InTable(id)

\* get(id) (lines 925-936)
Get(id) ==
  /\ hist' = [hist EXCEPT !.last =
                Op("get", id, IF Known(id) THEN "ok" ELSE "not found", {})]
  /\ UNCHANGED <<stop, work, now, batVars, config, mux, existsCache, tabsCache, sessions, term, call>>

\* find() (lines 941-947)
Find ==
  /\ hist' = [hist EXCEPT !.last = Op("find", 0, "ok", SeqToSet(sessions))]
  /\ UNCHANGED <<stop, work, now, batVars, config, mux, existsCache, tabsCache, sessions, term, call>>

\* what patch does to the record and PTY of a known terminal
Patched(t, input, resize) ==
  [t EXCEPT !.written = IF input # <<>> THEN Append(@, input[1]) ELSE @,
            !.cols = IF resize # <<>> THEN resize[1] ELSE @,
            !.rows = IF resize # <<>> THEN resize[2] ELSE @,
            !.resized = IF resize # <<>> THEN Append(@, resize) ELSE @]

\* patch without the lookup failing for an unknown id: it acts on the most
\* recently stored terminal instead
Patch_NoLookup(id, input, resize) ==
  /\ sessions # <<>>
  /\ LET target == IF Known(id) THEN id ELSE sessions[Len(sessions)] IN
     /\ Len(term[target].written) + Len(term[target].resized) < MaxPatch
     /\ term' = [term EXCEPT ![target] = Patched(@, input, resize)]
     /\ hist' = [hist EXCEPT !.last =
                   Op("patch", id, IF Known(id) THEN "ok" ELSE "not found", {})]
  /\ UNCHANGED <<stop, work, now, batVars, config, mux, existsCache, tabsCache, sessions, call>>

\* patch that stores the new size without telling the PTY
Patch_NoResize(id, input, resize) ==
  /\ Known(id)
  /\ Len(term[id].written) + Len(term[id].resized) < MaxPatch
  /\ term' = [term EXCEPT ![id] = [Patched(@, input, resize) EXCEPT !.resized = term[id].resized]]
  /\ hist' = [hist EXCEPT !.last = Op("patch", id, "ok", {})]
  /\ UNCHANGED <<stop, work, now, batVars, config, mux, existsCache, tabsCache, sessions, call>>

\* patch(id, {input, resize}) (lines 952-971)
Patch(id, input, resize) ==
  /\ IF Known(id)
       THEN /\ Len(term[id].written) + Len(term[id].resized) < MaxPatch
            /\ term' = [term EXCEPT ![id] = Patched(@, input, resize)]
            /\ hist' = [hist EXCEPT !.last = Op("patch", id, "ok", {})]
       ELSE /\ hist' = [hist EXCEPT !.last = Op("patch", id, "not found", {})]
            /\ UNCHANGED term
  /\ UNCHANGED <<stop, work, now, batVars, config, mux, existsCache, tabsCache, sessions, call>>

\* remove(id) of an id the table does not hold (lines 977-980)
RemoveUnknown(id) ==
  /\ ~Known(id)
  /\ hist' = [hist EXCEPT !.last = Op("remove", id, "not found", {})]
  /\ UNCHANGED <<stop, work, now, batVars, config, mux, existsCache, tabsCache, sessions, term, call>>

AccessNext ==
  \/ \E id \in Calls : Register(id) \/ PtyExit(id) \/ Remove(id)
  \/ \E id \in Ids :
       \/ Get(id)
       \/ RemoveUnknown(id)
       \/ \E input \in InputChoices, resize \in ResizeChoices : Patch(id, input, resize)
  \/ Find

AccessSpec == TableInit /\ [][AccessNext]_vars

\* the id was never handed out, or remove(id) has returned for it
Gone(id) == id \notin Calls \/ ~term[id].registered \/ term[id].removed

\* C14: once remove(id) has returned, the table does not hold id: get,
\* patch and another remove of it end with not-found and change nothing,
\* and find() does not list it; the same for an id never registered.
C14_NotInTable ==
  \A id \in Calls : term[id].removed => (~Known(id) /\ id \notin SeqToSet(sessions))
C14_Step ==
  /\ \A id \in Ids :
       (Gone(id) /\ (\/ Get(id) \/ RemoveUnknown(id)
                     \/ \E input \in InputChoices, resize \in ResizeChoices :
                          Patch(id, input, resize)))
         => /\ hist'.last.id = id /\ hist'.last.result = "not found"
            /\ UNCHANGED <<sessions, term>>
  /\ Find => \A id \in Ids : Gone(id) => id \notin hist'.last.listed
C14_RemovedIsNotFound == []C14_NotInTable /\ [][C14_Step]_vars

\* remove(id) returned, the PTY has not exited yet, and get(id) was refused
C14_Witness ==
  \E id \in Calls :
    /\ term[id].removed /\ term[id].ptyAlive
    /\ hist.last = Op("get", id, "not found", {})

\* C15: patch of an id the table does not hold ends with not-found and
\* has no effect: no write, no resize, no stored dimension changes.
C15_Step ==
  \A id \in Ids, input \in InputChoices, resize \in ResizeChoices :
    (~Known(id) /\ Patch(id, input, resize))
      => /\ hist'.last = Op("patch", id, "not found", {})
         /\ UNCHANGED <<sessions, term>>
C15_PatchUnknownNoEffect == [][C15_Step]_vars

\* a patch of an id no longer in the table was refused while another
\* terminal was in the table
C15_Witness ==
  \E id \in Calls :
    /\ term[id].registered /\ ~Known(id) /\ sessions # <<>>
    /\ hist.last = Op("patch", id, "not found", {})

\* C16: patch(id, {resize: {cols, rows}}) of a terminal in the table stores
\* exactly (cols, rows), makes exactly one resize call with them on that
\* terminal's PTY, writes no input, and leaves every other terminal alone.
C16_Step ==
  \A id \in Calls, resize \in ResizeChoices \ {<<>>} :
    (Known(id) /\ Patch(id, <<>>, resize))
      => /\ term'[id].cols = resize[1] /\ term'[id].rows = resize[2]
         /\ term'[id].resized = Append(term[id].resized, resize)
         /\ term'[id].written = term[id].written
         /\ \A other \in Calls \ {id} : term'[other] = term[other]
         /\ sessions' = sessions
C16_ResizeExactlyOnce == [][C16_Step]_vars

\* one of two terminals in the table was resized to 120 x 40
C16_Witness ==
  \E id \in Calls :
    /\ Known(id) /\ term[id].resized = <<<<120, 40>>>>
    /\ term[id].cols = 120 /\ term[id].rows = 40
    /\ \E other \in Calls \ {id} : Known(other) /\ term[other].cols = 80

\* ------------------------------------------------------------------------
\* Shell escaping (set.ts:166-182).  A string is a sequence of characters.
\* ------------------------------------------------------------------------
\* the characters ' " \ $ and `
SQ == "squote"
DOLLAR == "dollar"
TICK == "backtick"
DQ == "dquote"
BS == "backslash"

Alphabet == {SQ, DQ, BS, DOLLAR, TICK, "a", " "}
Strings == UNION {[1..n -> Alphabet] : n \in 0..MaxLen}

\* str.replace(/ch/g, rep)
RECURSIVE ReplaceAll(_, _, _)
ReplaceAll(str, ch, rep) ==
  IF str = <<>> THEN <<>>
  ELSE (IF Head(str) = ch THEN rep ELSE <<Head(str)>>) \o ReplaceAll(Tail(str), ch, rep)

\* escapeShellArg(arg)
EscapeShellArg(arg) ==
  <<SQ>> \o ReplaceAll(arg, SQ, <<SQ, BS, SQ, SQ>>) \o <<SQ>>

\* escapeDoubleQuoted with the backslash replaced last
EscapeDoubleQuoted_BackslashLast(str) ==
  ReplaceAll(ReplaceAll(ReplaceAll(ReplaceAll(str,
    DQ, <<BS, DQ>>), DOLLAR, <<BS, DOLLAR>>), TICK, <<BS, TICK>>), BS, <<BS, BS>>)

\* escapeDoubleQuoted(str): the four replace calls in their order
EscapeDoubleQuoted(str) ==
  ReplaceAll(ReplaceAll(ReplaceAll(ReplaceAll(str,
    BS, <<BS, BS>>), DQ, <<BS, DQ>>), DOLLAR, <<BS, DOLLAR>>), TICK, <<BS, TICK>>)

\* What a POSIX shell makes of the text of a command (sh -c text): the
\* characters of its words, with "<break>" where an unquoted blank ends a
\* word, "<expand>" where a parameter expansion or command substitution
\* starts, and "<open>" for a quote or backslash left open at the end.
\* mode is "plain", "single" or "double".
RECURSIVE ShellEval(_, _)
ShellEval(text, mode) ==
  IF text = <<>> THEN (IF mode = "plain" THEN <<>> ELSE <<"<open>">>)
  ELSE
    LET ch == Head(text)
        rest == Tail(text)
        expands == rest # <<>> /\ Head(rest) \in {"a", DOLLAR}
    IN
    CASE mode = "single" ->
           IF ch = SQ THEN ShellEval(rest, "plain")
           ELSE <<ch>> \o ShellEval(rest, "single")
      [] mode = "double" ->
           IF ch = DQ THEN ShellEval(rest, "plain")
           ELSE IF ch = BS THEN
             IF rest = <<>> THEN <<"<open>">>
             ELSE IF Head(rest) \in {DOLLAR, TICK, DQ, BS}
               THEN <<Head(rest)>> \o ShellEval(Tail(rest), "double")
               ELSE <<ch>> \o ShellEval(rest, "double")
           ELSE IF ch = TICK THEN <<"<expand>">> \o ShellEval(rest, "double")
           ELSE IF ch = DOLLAR /\ expands THEN <<"<expand>">> \o ShellEval(Tail(rest), "double")
           ELSE <<ch>> \o ShellEval(rest, "double")
      [] OTHER ->
           IF ch = SQ THEN ShellEval(rest, "single")
           ELSE IF ch = DQ THEN ShellEval(rest, "double")
           ELSE IF ch = BS THEN
             IF rest = <<>> THEN <<"<open>">>
             ELSE <<Head(rest)>> \o ShellEval(Tail(rest), "plain")
           ELSE IF ch = TICK THEN <<"<expand>">> \o ShellEval(rest, "plain")
           ELSE IF ch = DOLLAR /\ expands THEN <<"<expand>">> \o ShellEval(Tail(rest), "plain")
           ELSE IF ch = " " THEN <<"<break>">> \o ShellEval(rest, "plain")
           ELSE <<ch>> \o ShellEval(rest, "plain")

\* a string is drawn, then one of the two functions is applied to it and a
\* shell evaluates the result in the quoting context it is meant for
EscInit ==
  /\ work \in {[NoWork EXCEPT !.input = str] : str \in Strings}
  /\ now = 0
  /\ bat = NewBatcher
  /\ stop = NoStop
  /\ batPushed = <<>>
  /\ batEmits = <<>>
  /\ batOps = {}
  /\ SvcFixed

ApplyEscapeShellArg ==
  /\ work.fn = "none"
  /\ LET out == EscapeShellArg(work.input) IN
     work' = [work EXCEPT !.fn = "escapeShellArg", !.output = out,
                          !.value = ShellEval(out, "plain")]
  /\ UNCHANGED <<stop, now, batVars, svcVars>>

ApplyEscapeDoubleQuoted ==
  /\ work.fn = "none"
  /\ LET out == EscapeDoubleQuoted(work.input) IN
     work' = [work EXCEPT !.fn = "escapeDoubleQuoted", !.output = out,
                          !.value = ShellEval(<<DQ>> \o out \o <<DQ>>, "plain")]
  /\ UNCHANGED <<stop, now, batVars, svcVars>>

EscNext == ApplyEscapeShellArg \/ ApplyEscapeDoubleQuoted

EscapeSpec == EscInit /\ [][EscNext]_vars

\* C17: for every string over the alphabet, a POSIX shell evaluating
\* escapeShellArg(s) as a word, or escapeDoubleQuoted(s) between double
\* quotes, yields exactly s: one word, nothing expanded, no quote left open.
C17_EscapeRoundTrips ==
  work.fn \in {"escapeShellArg", "escapeDoubleQuoted"} => work.value = work.input

\* a string with a backslash before a quote or a dollar went through
\* escapeDoubleQuoted and came back
C17_Witness ==
  /\ work.fn = "escapeDoubleQuoted"
  /\ Len(work.input) = MaxLen /\ work.input[1] = BS /\ work.input[2] \in {DQ, DOLLAR}
  /\ work.value = work.input

\* ------------------------------------------------------------------------
\* The command texts create hands to a shell.  A fixed word of a command is
\* one character of the text; the values interpolated are character by
\* character.
\* ------------------------------------------------------------------------
Blank == " "

\* the words of a command as a shell hands them on
RECURSIVE Argv(_)
Argv(words) ==
  IF Len(words) = 0 THEN <<>>
  ELSE IF Len(words) = 1 THEN words[1]
  ELSE words[1] \o <<"<break>">> \o Argv(Tail(words))

\* `zellij --session "${sessionName}" action ${action}` (line 257)
ZellijActionCmd(sessionName, action) ==
  <<"zellij", Blank, "--session", Blank, DQ>> \o sessionName
    \o <<DQ, Blank, "action", Blank>> \o action

\* `rename-tab "${escapedTabName}"` (line 869)
RenameTabAction(tabName) ==
  <<"rename-tab", Blank, DQ>> \o EscapeDoubleQuoted(tabName) \o <<DQ>>

\* `new-tab --name "${escapedTabName}" --cwd "${escapedCwd}"` (line 878)
NewTabAction(tabName, cwd) ==
  <<"new-tab", Blank, "--name", Blank, DQ>> \o EscapeDoubleQuoted(tabName)
    \o <<DQ, Blank, "--cwd", Blank, DQ>> \o EscapeDoubleQuoted(cwd) \o <<DQ>>

\* `go-to-tab-name "${escapedTabName}"` (lines 884, 899)
GoToTabAction(tabName) ==
  <<"go-to-tab-name", Blank, DQ>> \o EscapeDoubleQuoted(tabName) \o <<DQ>>

\* `cd ${escapeShellArg(cwd)}` (line 379)
CdCommand(cwd) == <<"cd", Blank>> \o EscapeShellArg(cwd)

\* `write-chars "${escapeDoubleQuoted(initScript)}"` (line 398)
WriteCharsAction(initScript) ==
  <<"write-chars", Blank, DQ>> \o EscapeDoubleQuoted(initScript) \o <<DQ>>

\* `sudo -n su - ${asUser} -c ${escapedCommand}` (lines 214-216)
SudoCmd(asUser, command) ==
  <<"sudo", Blank, "-n", Blank, "su", Blank, "-", Blank>> \o asUser
    \o <<Blank, "-c", Blank>> \o EscapeShellArg(command)

\* userId.substring(0, 8) / formatShortId(resolvedUserId)
ShortIdLen == 8
ShortIdOf(userId) ==
  SubSeq(userId, 1, IF Len(userId) < ShortIdLen THEN Len(userId) ELSE ShortIdLen)

\* `agor-${userSessionSuffix}` (lines 574-578, 662)
SessionNameText(userId) == <<"agor-">> \o ShortIdOf(userId)

\* path.join(tmpDir, `agor-env-${userId.substring(0, 8)}.sh`) (line 485)
EnvFilePath(userId) == <<"/tmp/agor-env-">> \o ShortIdOf(userId) \o <<".sh">>

\* `sudo -n chown "${chownTo}" "${envFile}"` (line 513)
ChownCmd(chownTo, envFile) ==
  <<"sudo", Blank, "-n", Blank, "chown", Blank, DQ>> \o chownTo
    \o <<DQ, Blank, DQ>> \o envFile \o <<DQ>>

\* the command `text` was built around the drawn value; a shell runs it
Built(fn, text, words) ==
  work' = [work EXCEPT !.fn = fn, !.output = text,
                       !.value = ShellEval(text, "plain"),
                       !.expected = Argv(words)]

ZellijWords(sessionName) == <<<<"zellij">>, <<"--session">>, sessionName, <<"action">>>>

\* the drawn value is a worktree name: rename-tab and go-to-tab-name
BuildRenameTab ==
  /\ work.fn = "none"
  /\ Built("rename-tab",
           ZellijActionCmd(<<"agor-shared">>, RenameTabAction(work.input)),
           ZellijWords(<<"agor-shared">>) \o <<<<"rename-tab">>, work.input>>)
  /\ UNCHANGED <<stop, now, batVars, svcVars>>

BuildGoToTab ==
  /\ work.fn = "none"
  /\ Built("go-to-tab-name",
           ZellijActionCmd(<<"agor-shared">>, GoToTabAction(work.input)),
           ZellijWords(<<"agor-shared">>) \o <<<<"go-to-tab-name">>, work.input>>)
  /\ UNCHANGED <<stop, now, batVars, svcVars>>

\* the drawn value is a worktree name and a working directory: new-tab
BuildNewTab ==
  /\ work.fn = "none"
  /\ Built("new-tab",
           ZellijActionCmd(<<"agor-shared">>, NewTabAction(work.input, work.input)),
           ZellijWords(<<"agor-shared">>)
             \o <<<<"new-tab">>, <<"--name">>, work.input, <<"--cwd">>, work.input>>)
  /\ UNCHANGED <<stop, now, batVars, svcVars>>

\* the drawn value is a working directory: write-chars of the cd command
BuildWriteChars ==
  /\ work.fn = "none"
  /\ Built("write-chars",
           ZellijActionCmd(<<"agor-shared">>, WriteCharsAction(CdCommand(work.input))),
           ZellijWords(<<"agor-shared">>)
             \o <<<<"write-chars">>, CdCommand(work.input)>>)
  /\ UNCHANGED <<stop, now, batVars, svcVars>>

\* the drawn value is data.userId: the session name of every zellij command
BuildSessionName ==
  /\ work.fn = "none"
  /\ Built("session",
           ZellijActionCmd(SessionNameText(work.input), <<"query-tab-names">>),
           ZellijWords(SessionNameText(work.input)) \o <<<<"query-tab-names">>>>)
  /\ UNCHANGED <<stop, now, batVars, svcVars>>

\* the drawn value is the acting identity: sudo -n su - <asUser> -c '...'
BuildSudo ==
  /\ work.fn = "none"
  /\ LET command == ZellijActionCmd(<<"agor-shared">>, <<"query-tab-names">>) IN
     Built("sudo", SudoCmd(work.input, command),
           <<<<"sudo">>, <<"-n">>, <<"su">>, <<"-">>, work.input, <<"-c">>, command>>)
  /\ UNCHANGED <<stop, now, batVars, svcVars>>

\* the drawn value is data.userId: chown of the env file when impersonating
BuildChown ==
  /\ work.fn = "none"
  /\ Built("chown", ChownCmd(<<"alice">>, EnvFilePath(work.input)),
           <<<<"sudo">>, <<"-n">>, <<"chown">>, <<"alice">>, EnvFilePath(work.input)>>)
  /\ UNCHANGED <<stop, now, batVars, svcVars>>

CommandNext ==
  \/ BuildRenameTab \/ BuildGoToTab \/ BuildNewTab \/ BuildWriteChars
  \/ BuildSessionName \/ BuildSudo \/ BuildChown

CommandSpec == EscInit /\ [][CommandNext]_vars

\* the commands whose drawn value went through an escaping function
EscapedSites == {"rename-tab", "go-to-tab-name", "new-tab", "write-chars"}

\* C18: every externally controlled value that reaches a command text (tab
\* name, working directory, init-command text, the session name made from
\* the caller's user id, the acting identity given to sudo and chown) is
\* escaped: the shell hands on exactly the words intended, the value among
\* them literally, whatever characters it has.
C18_EveryValueEscaped ==
  work.fn \in EscapedSites \cup {"session", "sudo", "chown"}
    => work.value = work.expected

\* ------------------------------------------------------------------------
\* One create with its readiness wait in full: the PTY delivers data, the
\* batcher flushes, the fallback timeout fires (set.ts:825-858)
\* ------------------------------------------------------------------------
ReadyCalls == {1}

\* waitForReady() without the fallback setTimeout
WaitBegin_NoFallback(c) ==
  /\ call[c].pc = "ready"
  /\ term' = [term EXCEPT ![c] = [@ EXCEPT !.hooked = TRUE]]
  /\ call' = [call EXCEPT ![c] = [@ EXCEPT !.pc = "wait", !.resolved = FALSE,
                                           !.waitBegan = now]]
  /\ UNCHANGED <<stop, work, now, batVars, config, mux, existsCache, tabsCache, sessions, hist>>

\* waitForReady() is called: the promise executor replaces batcher.onFlush
\* and arms the fallback timeout (lines 825-855)
WaitBegin(c) ==
  /\ call[c].pc = "ready"
  /\ term' = [term EXCEPT ![c] = [@ EXCEPT !.hooked = TRUE]]
  /\ call' = [call EXCEPT ![c] = [@ EXCEPT !.pc = "wait", !.resolved = FALSE,
                                           !.readyPending = TRUE,
                                           !.readyDue = now + READY_TIMEOUT_MS,
                                           !.waitBegan = now]]
  /\ UNCHANGED <<stop, work, now, batVars, config, mux, existsCache, tabsCache, sessions, hist>>

\* a hook that resolves readiness and restores the original handler
\* without calling it
OnFlushTerm_HookSwallows(c, b, out) ==
  IF out = <<>> THEN [term[c] EXCEPT !.batcher = b]
  ELSE IF term[c].hooked
    THEN [term[c] EXCEPT !.batcher = b, !.hooked = FALSE,
                         !.emitted = TRUE,
                         !.firstEmitAt = IF term[c].emitted THEN @ ELSE now]
    ELSE [term[c] EXCEPT !.batcher = b,
                         !.dataEvents = @ + Len(out),
                         !.emitted = TRUE,
                         !.firstEmitAt = IF term[c].emitted THEN @ ELSE now]

\* the onFlush calls `out` of terminal c: the hook of lines 839-845 calls
\* onFirstData, restores the original handler and calls it (lines 763-772)
OnFlushTerm(c, b, out) ==
  IF out = <<>> THEN [term[c] EXCEPT !.batcher = b]
  ELSE [term[c] EXCEPT !.batcher = b, !.hooked = FALSE,
                       !.dataEvents = @ + Len(out),
                       !.emitted = TRUE,
                       !.firstEmitAt = IF term[c].emitted THEN @ ELSE now]
OnFlushCall(c, out) ==
  IF out # <<>> /\ term[c].hooked /\ ~call[c].resolved
    THEN [call[c] EXCEPT !.resolved = TRUE, !.waitEnded = now]
    ELSE call[c]

\* ptyProcess.onData while the create runs.  Nothing is delivered between
\* pty.spawn and waitForReady(): that stretch of create has no await.
WaitPtyData(c) ==
  /\ term[c].ptyAlive
  /\ call[c].pc # "ready"
  /\ term[c].pushes < MaxData
  /\ \E n \in DataSizes :
       LET res == BatcherPush(term[c].batcher,
                              [id |-> term[c].pushes + 1, len |-> n], now)
       IN /\ term' = [term EXCEPT ![c] =
                        [OnFlushTerm(c, res.b, res.out) EXCEPT !.pushes = @ + 1]]
          /\ call' = [call EXCEPT ![c] = OnFlushCall(c, res.out)]
  /\ UNCHANGED <<stop, work, now, batVars, config, mux, existsCache, tabsCache, sessions, hist>>

\* the batch timer of terminal c fires
WaitBatchTimer(c) ==
  /\ \E x \in DueTimeouts(term[c].batcher, now) :
       LET res == BatcherTimeout(term[c].batcher, x)
       IN /\ term' = [term EXCEPT ![c] = OnFlushTerm(c, res.b, res.out)]
          /\ call' = [call EXCEPT ![c] = OnFlushCall(c, res.out)]
  /\ UNCHANGED <<stop, work, now, batVars, config, mux, existsCache, tabsCache, sessions, hist>>

\* the fallback timeout of lines 848-854 fires
ReadyTimeout(c) ==
  /\ call[c].readyPending
  /\ now >= call[c].readyDue
  /\ call' = [call EXCEPT ![c] =
                IF call[c].resolved THEN [@ EXCEPT !.readyPending = FALSE]
                ELSE [@ EXCEPT !.readyPending = FALSE, !.resolved = TRUE,
                               !.waitEnded = now]]
  /\ UNCHANGED <<stop, work, now, batVars, config, mux, existsCache, tabsCache, sessions, term, hist>>

\* await waitForReady() continues (line 858)
WaitEnd(c) ==
  /\ call[c].pc = "wait"
  /\ call[c].resolved
  /\ call' = [call EXCEPT ![c] = [@ EXCEPT !.pc = "tab"]]
  /\ UNCHANGED <<stop, work, now, batVars, config, mux, existsCache, tabsCache, sessions, term, hist>>

\* the deadlines of the timeouts pending in the runtime
PendingDues ==
  UNION {{x.due : x \in term[c].batcher.timeouts}
           \cup (IF call[c].readyPending THEN {call[c].readyDue} ELSE {}) : c \in ReadyCalls}

\* Time passes while a create waits or a batch timer runs: to the next
\* deadline or by half a readiness timeout, never past a deadline, and not
\* while a callback is runnable.
Advance ==
  /\ now < MaxWait * READY_TIMEOUT_MS
  /\ \A c \in ReadyCalls : call[c].pc # "ready" /\ ~(call[c].pc = "wait" /\ call[c].resolved)
  /\ PendingDues # {} \/ \E c \in ReadyCalls : call[c].pc = "wait"
  /\ \A d \in PendingDues : d > now
  /\ \E target \in PendingDues \cup {now + READY_TIMEOUT_MS \div 2} :
       /\ \A d \in PendingDues : target <= d
       /\ now' = target
  /\ UNCHANGED <<stop, work, batVars, svcVars>>

ReadyNext ==
  \/ \E c \in ReadyCalls :
       \/ CreateBegin(c)
       \/ ExistsStart(c) \/ ExistsQuery(c) \/ ExistsResult(c)
       \/ TabsStart(c) \/ TabsQuery(c) \/ TabsResult(c)
       \/ Spawn(c)
       \/ WaitBegin(c) \/ WaitPtyData(c) \/ WaitBatchTimer(c)
       \/ ReadyTimeout(c) \/ WaitEnd(c)
       \/ TabAction(c) \/ GoToNewTab(c) \/ CtrlC(c)
       \/ InitCommands(c) \/ Enter(c)
  \/ Advance

ReadySpec == Init /\ [][ReadyNext]_vars

\* ------------------------------------------------------------------------
\* create under a scheduler that runs every continuation and every timer
\* ------------------------------------------------------------------------
\* the service after construction, with a multiplexer that answers or one
\* that hangs on every command
LiveInit ==
  /\ work = NoWork
  /\ now = 0
  /\ bat = NewBatcher
  /\ stop = NoStop
  /\ batPushed = <<>>
  /\ batEmits = <<>>
  /\ batOps = {}
  /\ config \in Configs
  /\ \E s \in InitialSessions : mux = [k \in MuxKeys |-> s]
  /\ existsCache = [k \in CacheKeys |-> NoExists]
  /\ tabsCache = [k \in CacheKeys |-> NoTabs]
  /\ sessions = <<>>
  /\ term = [id \in Calls |-> NoTerminal]
  /\ call = [c \in Calls |-> NoCall]
  /\ \E h \in BOOLEAN :
       hist = [overlap |-> FALSE, faults |-> 0, readSince |-> {}, cleanups |-> {},
               last |-> NoOp, stale |-> {}, hang |-> h]

\* the statements of create(c) that run as soon as the await before them
\* settles; every await of create settles: a database read returns, an
\* external command ends or is rejected after ZELLIJ_COMMAND_TIMEOUT_MS
\* (line 221), the delays of lines 891 and 906 elapse
CreateStep(c) ==
  \/ ExistsStart(c) \/ ExistsQuery(c) \/ ExistsResult(c)
  \/ TabsStart(c) \/ TabsQuery(c) \/ TabsResult(c)
  \/ Spawn(c)
  \/ WaitBegin(c) \/ WaitEnd(c)
  \/ TabAction(c) \/ GoToNewTab(c) \/ CtrlC(c)
  \/ InitCommands(c) \/ Enter(c)

\* The event loop runs a runnable continuation and a due timer callback,
\* and the clock goes on.  Nothing obliges a caller to call create or the
\* PTY to produce output.
LiveFairness ==
  /\ \A c \in ReadyCalls :
       /\ WF_vars(CreateStep(c))
       /\ WF_vars(ReadyTimeout(c))
       /\ WF_vars(WaitBatchTimer(c))
  /\ WF_vars(Advance)

LiveSpec == LiveInit /\ [][ReadyNext]_vars /\ LiveFairness

\* C20: every create that has begun returns or fails, also where every
\* multiplexer command hangs until its timeout and the PTY stays silent:
\* no step of create waits without a timeout and none is repeated.
C20_CreateTerminates ==
  \A c \in ReadyCalls :
    InFlight(call[c]) ~> (call[c].pc \in {"done", "failed"})

\* a create met a hanging multiplexer and a silent PTY, waited the whole
\* READY_TIMEOUT_MS, and failed on its first tab action
C20_Witness ==
  /\ hist.hang
  /\ call[1].pc = "failed"
  /\ call[1].criticalFailed
  /\ term[1].registered /\ term[1].pushes = 0 /\ ~term[1].emitted
  /\ now >= READY_TIMEOUT_MS

\* the pcs of create after line 858
AfterWait == {"tab", "goto", "ctrlc", "init", "enter"}

\* C13: the readiness wait of a create ends at the first onFlush call of
\* its terminal or READY_TIMEOUT_MS after it began, whichever comes first,
\* and never later; no tab action of the create is issued before that.
C13_Waiting ==
  \A c \in ReadyCalls :
    (call[c].pc = "wait" /\ ~call[c].resolved) =>
      /\ ~term[c].emitted
      /\ now <= call[c].waitBegan + READY_TIMEOUT_MS
      /\ call[c].issued = <<>>
C13_Ended ==
  \A c \in ReadyCalls :
    (call[c].pc \in {"wait"} \cup AfterWait /\ call[c].resolved) =>
      LET deadline == call[c].waitBegan + READY_TIMEOUT_MS IN
      call[c].waitEnded =
        IF term[c].emitted /\ term[c].firstEmitAt <= deadline
          THEN term[c].firstEmitAt ELSE deadline
C13_NoActionBefore ==
  \A c \in ReadyCalls :
    /\ call[c].pc \in AfterWait => call[c].resolved
    /\ call[c].issued # <<>> => call[c].pc \in AfterWait
C13_ReadyWaitBounded == C13_Waiting /\ C13_Ended /\ C13_NoActionBefore

\* a wait ended by the batch-timer flush of data that arrived half way
\* through it, and the create has issued a tab action since
C13_Witness ==
  \E c \in ReadyCalls :
    /\ call[c].issued # <<>>
    /\ call[c].waitEnded > call[c].waitBegan + DATA_BATCH_INTERVAL_MS
    /\ call[c].waitEnded < call[c].waitBegan + READY_TIMEOUT_MS
    /\ call[c].waitEnded = term[c].firstEmitAt

\* ------------------------------------------------------------------------
\* Claims about create
\* ------------------------------------------------------------------------
Quiescent == \A c \in Calls : ~InFlight(call[c])
TabsOf(c) == mux[MKey(c)].tabs

\* C1: once the create calls have returned, the session of each successful
\* call holds exactly one tab named for that call's worktree (here: when no
\* external command failed or timed out).
C1_OneTabPerWorktree ==
  (Quiescent /\ hist.faults = 0) =>
    \A c \in Calls :
      (call[c].pc = "done" /\ call[c].worktree # None)
        => TabCount(TabsOf(c), call[c].tabName) = 1

\* c2 began after c1 had returned successfully, for the same user and worktree
Sequential(c1, c2) ==
  /\ c1 \in call[c2].doneBefore
  /\ call[c1].auth = call[c2].auth
  /\ call[c1].userId = call[c2].userId
  /\ call[c1].worktree = call[c2].worktree

\* no two creates overlapped and no external command failed or timed out
Responsive == ~hist.overlap /\ hist.faults = 0

\* C2: with a responsive multiplexer and creates made one after the other,
\* a create for the user and worktree of an earlier successful create issues
\* no rename-tab and no new-tab, leaves the tab list as it is, and returns
\* the same session name with zellijReused = true.
C2_SecondIssuesNoTabChange ==
  \A c1, c2 \in Calls :
    (Responsive /\ Sequential(c1, c2)) =>
      /\ \A i \in 1..Len(call[c2].issued) :
            call[c2].issued[i] \notin {"rename-tab", "new-tab"}
      /\ ~call[c2].mutated
      /\ call[c2].pc # "failed"
      /\ call[c2].pc = "done" =>
            (call[c2].zellijReused /\ call[c2].zellijSession = call[c1].zellijSession)
C2_TabListKept ==
  \A c1, c2 \in Calls :
    (Responsive /\ ~hist'.overlap /\ Sequential(c1, c2) /\ InFlight(call[c2]))
      => mux'[MKey(c2)].tabs = mux[MKey(c2)].tabs
C2_SecondCreateReuses == []C2_SecondIssuesNoTabChange /\ [][C2_TabListKept]_vars

\* the second of two sequential creates returned within the TTL of the first
C2_Witness ==
  \E c1, c2 \in Calls :
    Responsive /\ Sequential(c1, c2) /\ call[c2].pc = "done" /\ now = 0
      /\ call[c1].mutated

\* what getTabs would return for the key of call c if called now and the
\* multiplexer answered
GetTabsNow(c) ==
  IF CacheHit(tabsCache[Key(c)], now) THEN tabsCache[Key(c)].val ELSE TabsOf(c)

\* C3: once a create that renamed or created a tab has returned and no
\* create is in flight, the next getTabs for its key returns a list that
\* contains the tab (here: when no external command failed, the tab still
\* exists on the multiplexer and no getTabs was made since the return).
C3_NextGetTabsHasNewTab ==
  \A c \in Calls :
    (/\ Quiescent /\ hist.faults = 0
     /\ call[c].pc = "done" /\ call[c].mutated
     /\ Key(c) \notin hist.readSince
     /\ Includes(TabsOf(c), call[c].tabName))
      => Includes(GetTabsNow(c), call[c].tabName)

\* C19: a failed or timed-out multiplexer query is not propagated:
\* sessionExists then returns false and getTabs the empty list (which is
\* also what the cache stores), and the create that asked goes on.
C19_Step ==
  \A c \in Calls :
    call'[c] # call[c] =>
      /\ (call[c].pc = "existsQuery" /\ hist'.faults > hist.faults)
           => (call'[c].pc = "existsResult" /\ ~call'[c].obsExists)
      /\ (call[c].pc = "tabsQuery" /\ hist'.faults > hist.faults)
           => (call'[c].pc = "tabsResult" /\ call'[c].obsTabs = <<>>)
      /\ call[c].pc = "existsResult"
           => /\ call'[c].pc = (IF call[c].obsExists THEN "tabs" ELSE "spawn")
              /\ call'[c].sessionExists = call[c].obsExists
              /\ existsCache'[Key(c)].val = call[c].obsExists
      /\ call[c].pc = "tabsResult"
           => /\ call'[c].pc = "spawn"
              /\ tabsCache'[Key(c)].val = call[c].obsTabs
C19_QueryFailureNotPropagated == [][C19_Step]_vars

\* the only create made found a session that exists reported absent (its
\* list-sessions failed) and went on to spawn
C19_Witness ==
  /\ call[1].pc = "spawn" /\ call[2].pc = "idle"
  /\ mux[MKey(1)].exists /\ ~call[1].sessionExists
  /\ hist.faults = 1
  /\ existsCache[Key(1)].has /\ ~existsCache[Key(1)].val

\* the class of a create once lines 666-683 have run
ClassOf(rec) ==
  {k \in {"first-session-creation", "reuse-existing-tab", "new-tab-in-existing-session"} :
     \/ k = "first-session-creation" /\ ~rec.sessionExists
     \/ k = "reuse-existing-tab" /\ rec.sessionExists /\ rec.needsTabSwitch
     \/ k = "new-tab-in-existing-session" /\ rec.sessionExists /\ rec.needsTabCreation}

\* the multiplexer actions of each class (lines 866-909)
VerbsOf(class) ==
  CASE class = "first-session-creation" -> {"rename-tab", "write-chars", "write 10"}
    [] class = "new-tab-in-existing-session" ->
         {"new-tab", "go-to-tab-name", "write-chars", "write 10"}
    [] class = "reuse-existing-tab" ->
         {"go-to-tab-name", "write 3", "write-chars", "write 10"}

PostClassification == {"spawn", "ready", "wait", "tab", "goto", "ctrlc", "init", "enter"}

\* C28: every create has exactly one class: first-session-creation if the
\* cache reported no session, reuse-existing-tab if it reported the session
\* and a tab list with the tab name, new-tab-in-existing-session if the list
\* lacks the name; it issues only the actions of its class, and it returns
\* zellijReused = true exactly for reuse-existing-tab.
C28_OneClass ==
  \A c \in Calls :
    call[c].pc \in PostClassification =>
      /\ Cardinality(ClassOf(call[c])) = 1
      /\ call[c].zellijReused <=> ClassOf(call[c]) = {"reuse-existing-tab"}
      /\ \A i \in 1..Len(call[c].issued) :
           \A class \in ClassOf(call[c]) : call[c].issued[i] \in VerbsOf(class)
C28_Step ==
  \A c \in Calls :
    call'[c] # call[c] =>
      \* the class follows what the cache read returned
      /\ (call[c].pc \in {"exists", "existsResult"} /\ call'[c].pc = "spawn")
           => ClassOf(call'[c]) = {"first-session-creation"}
      /\ (call[c].pc \in {"exists", "existsResult"} /\ call'[c].pc = "tabs")
           => call'[c].sessionExists
      /\ (call[c].pc \in {"tabs", "tabsResult"} /\ call'[c].pc = "spawn") =>
           LET existingTabs == IF call[c].pc = "tabs" THEN tabsCache[Key(c)].val
                               ELSE call[c].obsTabs
           IN ClassOf(call'[c]) =
                IF Includes(existingTabs, call[c].tabName)
                  THEN {"reuse-existing-tab"} ELSE {"new-tab-in-existing-session"}
      \* the class never changes
      /\ (call[c].pc \in PostClassification /\ call'[c].pc \in PostClassification)
           => ClassOf(call'[c]) = ClassOf(call[c])
      \* the returned flag
      /\ (call[c].pc \in PostClassification /\ call'[c].pc = "done")
           => (call'[c].zellijReused <=> ClassOf(call[c]) = {"reuse-existing-tab"})
C28_ClassifiedOnce == []C28_OneClass /\ [][C28_Step]_vars

\* one create made the first tab of the session, the next one reused it
C28_Witness ==
  /\ call[1].pc = "done" /\ ~call[1].zellijReused /\ call[1].mutated
  /\ call[2].pc = "done" /\ call[2].zellijReused
  /\ call[2].tabName = call[1].tabName

\* C29: the init command list has the source command exactly when an env
\* file was written, and the cd command exactly when the create is a new-tab
\* or reuse-existing-tab create, or a first-session creation whose directory
\* is not the home directory; source comes before cd; an empty list injects
\* nothing.
C29_Step ==
  \A c \in Calls :
    (call[c].pc = "init" /\ call'[c] # call[c]) =>
      LET rec == call[c]
          wantSource == rec.envFile
          wantCd == \/ ClassOf(rec) \subseteq {"new-tab-in-existing-session",
                                                "reuse-existing-tab"}
                    \/ ClassOf(rec) = {"first-session-creation"} /\ ~rec.cwdIsHome
          list == call'[c].script
      IN /\ Includes(list, "source") <=> wantSource
         /\ Includes(list, "cd") <=> wantCd
         /\ Len(list) = (IF wantSource THEN 1 ELSE 0) + (IF wantCd THEN 1 ELSE 0)
         /\ (wantSource /\ wantCd) => list = <<"source", "cd">>
         /\ IF list = <<>>
              THEN call'[c].pc = "done" /\ call'[c].injected = <<>>
              ELSE /\ call'[c].pc = "enter"
                   /\ call'[c].issued = Append(rec.issued, "write-chars")
C29_InitCommandList == [][C29_Step]_vars

\* a create is about to terminate an injected source-then-cd script, and an
\* earlier create returned without injecting anything
C29_Witness ==
  /\ call[1].pc = "done" /\ call[1].injected = <<>> /\ call[1].mutated
  /\ call[2].pc = "enter" /\ call[2].script = <<"source", "cd">>

\* C30: each init-command injection is one write-chars followed by exactly
\* one terminator byte, and the terminator is a carriage return (byte 13).
C30_TerminatorIsCarriageReturn ==
  \A c \in Calls :
    (call[c].pc = "done" /\ call[c].injected # <<>>)
      => call[c].injected = <<"write-chars", "write 13">>

\* the tab names creates give to worktrees
WorktreeTabNames == {TabNameOf(w) : w \in WorktreeInputs}

\* C31: a rename-tab of create never renames a tab that already carries the
\* name of another worktree, whatever the interleaving of creates, the
\* failures of existence queries and the age of cached results.
C31_Step ==
  \A c \in Calls :
    (call[c].pc = "tab" /\ ~call[c].sessionExists /\ call'[c].pc = "init") =>
      LET s == mux[MKey(c)] IN
      s.tabs[s.focus] \notin WorktreeTabNames \ {call[c].tabName}
C31_RenameOnlyInitialTab == [][C31_Step]_vars

\* the tab that receives `write` / `write-chars` sent to the session of c:
\* the focused one
FocusedTab(c) ==
  LET s == mux[MKey(c)] IN
  IF s.exists /\ s.focus \in 1..Len(s.tabs) THEN s.tabs[s.focus] ELSE None

\* create c gets a keystroke action delivered in this step
Injects(c) ==
  /\ call'[c] # call[c]
  /\ hist'.faults = hist.faults
  /\ \/ call[c].pc = "ctrlc"
     \/ call[c].pc = "init" /\ call'[c].pc = "enter"
     \/ call[c].pc = "enter"

\* C32: the keystrokes a create injects (Ctrl+C, the init line, its
\* terminator) go to the tab named for the worktree of that create, under
\* any interleaving of creates that share the session.
C32_Step == \A c \in Calls : Injects(c) => FocusedTab(c) = call[c].tabName
C32_KeystrokesReachOwnTab == [][C32_Step]_vars

\* C33: once create has failed, for whatever reason, the table holds no
\* record made by that call and no PTY spawned by it is still running (the
\* caller got no terminalId it could pass to remove).
C33_FailedCreateLeavesNothing ==
  \A c \in Calls :
    call[c].pc = "failed" => ~InTable(c) /\ ~term[c].ptyAlive

\* ------------------------------------------------------------------------
\* create while the PTY it spawned may exit (onExit, lines 798-816)
\* ------------------------------------------------------------------------
ExitCalls == {1}

ExitNext ==
  \/ \E c \in ExitCalls :
       \/ CreateBegin(c)
       \/ ExistsStart(c) \/ ExistsQuery(c) \/ ExistsResult(c)
       \/ TabsStart(c) \/ TabsQuery(c) \/ TabsResult(c)
       \/ Spawn(c) \/ Ready(c)
       \/ TabAction(c) \/ GoToNewTab(c) \/ CtrlC(c)
       \/ InitCommands(c) \/ Enter(c)
       \/ PtyExit(c)
  \/ Tick

ExitSpec == Init /\ [][ExitNext]_vars

\* C34: when create returns, the terminalId it returns is in the table
\* (get(terminalId) succeeds), also where the PTY exited while create was
\* waiting for readiness or running tab actions; and the table never holds
\* a terminal whose PTY has reported exit.
C34_TableLive ==
  \A i \in 1..Len(sessions) : term[sessions[i]].exitEvents = 0
C34_Step ==
  \A c \in Calls :
    (call[c].pc # "done" /\ call'[c].pc = "done") =>
      \E i \in 1..Len(sessions') : sessions'[i] = c
C34_ReturnedIdInTable == []C34_TableLive /\ [][C34_Step]_vars

\* C35: a query that was in flight when its key was invalidated does not
\* store or return the result it observed before the invalidate: the cache
\* never serves a value older than the last invalidate of its key.
C35_Step ==
  \A d \in Calls :
    (call[d].pc \in {"existsResult", "tabsResult"} /\ call'[d] # call[d])
      => d \notin hist.stale
C35_NoPreInvalidateValue == [][C35_Step]_vars

\* remove() or cleanup() deleted the record of id and its PTY, signalled,
\* has not exited yet
RemovedAlive(id) ==
  term[id].registered /\ ~InTable(id) /\ term[id].ptyAlive /\ term[id].kills > 0

\* C36: once remove() or cleanup() has taken a terminal out of the table,
\* no 'data' event is emitted for it and no batch timer of it is pending,
\* also where the PTY still delivers output before it exits.
C36_NoTimer ==
  \A id \in Calls : RemovedAlive(id) => term[id].batcher.timeouts = {}
C36_Step ==
  \A id \in Calls : RemovedAlive(id) => term'[id].dataEvents = term[id].dataEvents
C36_SilentAfterRemove == []C36_NoTimer /\ [][C36_Step]_vars

\* ------------------------------------------------------------------------
\* create from its first statement to pty.spawn, for every caller, every
\* data.userId and every unix_user_mode
\* ------------------------------------------------------------------------
EnvCalls == {1}

EnvNext ==
  \E c \in EnvCalls :
    \/ NameCreate(c)
    \/ ExistsStart(c) \/ ExistsQuery(c) \/ ExistsResult(c)
    \/ Spawn(c)

EnvSpec == NameInit /\ [][EnvNext]_vars

\* the user whose variables resolveUserEnvironment and writeEnvFile load
\* (lines 689, 716): resolvedUserId
EnvUser(c) == call[c].userId

\* C37: the user whose environment variables are loaded into the terminal
\* is the user whose mapped OS identity the PTY runs as; an authenticated
\* caller gets no other user's variables by passing data.userId.
C37_EnvOfActingUser ==
  \A c \in Calls :
    (call[c].pc = "ready" /\ call[c].envFile) =>
      /\ call[c].asUser = FinalUnixUser(config, EnvUser(c))
      /\ call[c].auth # NoUser => EnvUser(c) = call[c].auth

\* ------------------------------------------------------------------------
\* Two callers read the cache under one key while time passes at any point
\* of their reads
\* ------------------------------------------------------------------------
FreshCallers == {1, 2}

\* Date.now() at the steps of the reads
FreshTimes == {0, TAB_CACHE_TTL_MS - 1, TAB_CACHE_TTL_MS, 2 * TAB_CACHE_TTL_MS - 1}

\* a caller of Alice computes its names and is about to read the cache
FreshCaller(c) ==
  /\ call[c].pc = "idle"
  /\ CreateWith(c, Alice, NoUser, "A")
  /\ UNCHANGED <<stop, work, now, batVars, config, mux, existsCache, tabsCache, sessions, term, hist>>

\* Date.now() advances
FreshTick ==
  /\ \E t \in FreshTimes : t > now /\ now' = t
  /\ UNCHANGED <<stop, work, batVars, svcVars>>

FreshNext ==
  \/ \E c \in FreshCallers :
       \/ FreshCaller(c)
       \/ ExistsStart(c) \/ ExistsQuery(c) \/ ExistsResult(c)
       \/ TabsStart(c) \/ TabsQuery(c) \/ TabsResult(c)
       \/ CacheCallerEnds(c)
  \/ FreshTick

FreshSpec == CacheInit /\ [][FreshNext]_vars

\* C38: a value served from the cache comes from a query that ran less
\* than TAB_CACHE_TTL_MS before the read that returns it, whatever the
\* interleaving of reads and the latency of their queries; the timestamp
\* of an entry is never later than the query that produced its value.
C38_Stamped ==
  \A k \in CacheKeys :
    /\ existsCache[k].has => existsCache[k].timestamp <= existsCache[k].observedAt
    /\ tabsCache[k].has => tabsCache[k].timestamp <= tabsCache[k].observedAt
C38_Step ==
  \A c \in FreshCallers :
    call'[c] # call[c] =>
      /\ (call[c].pc = "exists" /\ call'[c].pc # "existsQuery")
           => /\ existsCache[Key(c)].has
              /\ call'[c].sessionExists = existsCache[Key(c)].val
              /\ now - existsCache[Key(c)].observedAt < TAB_CACHE_TTL_MS
      /\ (call[c].pc = "tabs" /\ call'[c].pc # "tabsQuery")
           => /\ tabsCache[Key(c)].has
              /\ call'[c].needsTabSwitch = Includes(tabsCache[Key(c)].val, call[c].tabName)
              /\ now - tabsCache[Key(c)].observedAt < TAB_CACHE_TTL_MS
C38_ServedWithinTtl == []C38_Stamped /\ [][C38_Step]_vars

\* both callers were told that the session is absent although it exists and
\* only one query can have failed: one of them was served the entry the
\* other stored, stamped 0 by a read whose query ran at TTL - 1
C38_Witness ==
  /\ call[1].pc = "spawn" /\ call[2].pc = "spawn"
  /\ ~call[1].sessionExists /\ ~call[2].sessionExists
  /\ mux[MKey(1)].exists
  /\ hist.faults = 1
  /\ existsCache[Key(1)].timestamp = 0
  /\ existsCache[Key(1)].observedAt = TAB_CACHE_TTL_MS - 1

\* the batcher of terminal c calls onFlush in this step: a push that reaches
\* MAX_BUFFER_SIZE, or a batch timer that finds a non-empty buffer
FlushesNow(c) ==
  \/ /\ term'[c].pushes = term[c].pushes + 1
     /\ term'[c].batcher.buffer = <<>>
  \/ /\ term'[c].pushes = term[c].pushes
     /\ term[c].batcher.buffer # <<>>
     /\ term'[c].batcher.buffer = <<>>

\* C39: the readiness hook loses and duplicates nothing: every onFlush
\* call of the batcher reaches the transport as exactly one 'data' event,
\* whether readiness resolved by the first flush or by the timeout;
\* readiness resolves at most once; the original handler is back after the
\* first flush and not before.
C39_Hooked ==
  \A c \in ReadyCalls :
    /\ term[c].emitted => ~term[c].hooked
    /\ (call[c].pc \in {"wait"} \cup AfterWait /\ ~term[c].emitted) => term[c].hooked
    /\ (term[c].dataEvents > 0) <=> term[c].emitted
C39_Step ==
  \A c \in ReadyCalls :
    /\ term[c].registered =>
         term'[c].dataEvents = term[c].dataEvents + (IF FlushesNow(c) THEN 1 ELSE 0)
    /\ (call[c].pc \in {"wait"} \cup AfterWait /\ call[c].resolved
          /\ call'[c].pc \in {"wait"} \cup AfterWait)
         => call'[c].resolved /\ call'[c].waitEnded = call[c].waitEnded
C39_HookForwardsOnce == []C39_Hooked /\ [][C39_Step]_vars

\* readiness resolved by the fallback timeout; the first flush came later,
\* through the hook, and a second flush through the restored handler
C39_Witness ==
  \E c \in ReadyCalls :
    /\ call[c].pc \in AfterWait
    /\ call[c].waitEnded = call[c].waitBegan + READY_TIMEOUT_MS
    /\ term[c].firstEmitAt > call[c].waitEnded
    /\ term[c].dataEvents = 2
    /\ ~term[c].hooked

\* C26: a create that got a rename-tab or new-tab through to the
\* multiplexer has called invalidate for its (session, identity) by the time
\* it returns or throws, also when a later step of it failed.
C26_InvalidatedBeforeReturn ==
  \A c \in Calls :
    (call[c].pc \in {"done", "failed"} /\ call[c].mutated) => call[c].invalidated

\* the PTY of call c was spawned
Spawned(c) == call[c].pc \notin {"idle", "exists", "existsQuery", "existsResult",
                                 "tabs", "tabsQuery", "tabsResult", "spawn"}
                /\ call[c].error \notin {"identity", "spawn"}

\* C5: once the PTY is spawned, create fails exactly when a critical tab
\* action (rename-tab, new-tab, go-to-tab-name) fails, and it fails at
\* once; a failed write 3, write-chars or write 10 does not fail it.
C5_FailsIffCriticalFails ==
  \A c \in Calls :
    Spawned(c) =>
      /\ (call[c].pc = "failed") <=> call[c].criticalFailed
      /\ call[c].pc = "failed" => call[c].error = "tab"

\* a create returned although one of its non-critical writes failed
C5_Witness ==
  \E c \in Calls : call[c].pc = "done" /\ call[c].otherFailed

\* validation of the identity resolved for the caller of call c fails
IdentityInvalid(c) ==
  ~ResolvedUserValid(config.mode, FinalUnixUser(config, call[c].auth))

\* C6: a create whose identity validation fails throws at once and has no
\* side effect: no terminal is registered, no PTY spawned, no external
\* command issued, no cache entry written, the multiplexer untouched.
C6_Failed ==
  \A c \in Calls :
    (call[c].pc # "idle" /\ IdentityInvalid(c)) =>
      /\ call[c].pc = "failed" /\ call[c].error = "identity"
      /\ call[c].issued = <<>>
      /\ ~term[c].registered /\ ~term[c].ptyAlive /\ ~InTable(c)
C6_Step ==
  \A c \in Calls :
    (call[c].pc = "idle" /\ call'[c].pc # "idle" /\ call'[c].error = "identity")
      => UNCHANGED <<mux, existsCache, tabsCache, sessions, term>>
C6_InvalidIdentityNoEffect == []C6_Failed /\ [][C6_Step]_vars

\* a create failed validation while another create had a terminal registered
C6_Witness ==
  \E c, d \in Calls :
    call[c].error = "identity" /\ InTable(d) /\ existsCache # [k \in CacheKeys |-> NoExists]

\* C7: when pty.spawn throws, create fails and the terminal table is as it
\* was: no record and no batcher is registered for the call.
C7_NotRegistered ==
  \A c \in Calls :
    call[c].error = "spawn" =>
      call[c].pc = "failed" /\ ~term[c].registered /\ ~InTable(c)
C7_Step ==
  \A c \in Calls :
    (call[c].pc = "spawn" /\ call'[c].error = "spawn")
      => UNCHANGED <<sessions, term>>
C7_SpawnErrorLeavesTable == []C7_NotRegistered /\ [][C7_Step]_vars

\* a spawn threw while the table held another terminal
C7_Witness ==
  \E c \in Calls : call[c].error = "spawn" /\ sessions # <<>>
====
